---- MODULE Spec2Model ----
(***************************************************************************)
(* Trade lifecycle engine of the Capital.com trading bot (bot1.py, bot4.py *)
(* and the CapitalComClient of api_client.py).                             *)
(*                                                                         *)
(* Prices, levels and distances are integers counted in thousandths        *)
(* (0.001) of the quote currency, so that round(x, 2) of the source is a   *)
(* real rounding to a multiple of 10.  Arithmetic is exact; on an exact    *)
(* tie round() of a Python float goes to either neighbour, depending on    *)
(* the binary representation of the operand, and Round2 gives both.        *)
(***************************************************************************)
EXTENDS Integers, Sequences, FiniteSets, TLC

\* ---------------------------------------------------------------- bounds
\* Reference prices 1..MaxPrice thousandths are enumerated exhaustively.
MaxPrice == 12
\* Positions open at the broker when a trade_action call starts: fewer than
\* MaxOpen.
MaxOpen == 1
\* Nested _make_request calls the interpreter allows before RecursionError
\* (sys.getrecursionlimit() frames in CPython).
RecursionLimit == 4
\* POST /session requests sent and cache expiries that happen in a run.
MaxTokens == 3
MaxExpiries == 2
\* Length of a price history and the number of times its price changes.
MaxHistory == 22
MaxTurns == 1
\* Length of the SYMBOLS list.
MaxSymbols == 3
\* Number of prices passed to update_price_history.
MaxCalls == 103
\* Number of times the clock of the api_cache model moves.
MaxAdvances == 4
\* Largest magnitude of an operand of multiply.
MaxOperand == 6
\* Number of times the clock of bot3 moves, and of orders the broker accepts.
MaxTicks == 5
MaxOrders == 3

\* ------------------------------------------------------------- constants
\* Retry(total=3): retries after the first send.
RetryTotal == 3
\* Default distance used by the repair paths when get_min_distance is None
\* (min_distance = 1.0), in thousandths.
DefaultRepairDistance == 1000
\* TrendFollowingStrategy.__init__: sma_short, sma_long, rsi_period,
\* atr_period, rsi_overbought.
SmaShort == 10
SmaLong == 20
RsiPeriod == 14
AtrPeriod == 14
RsiOverbought == 70
\* "len(self.price_history[symbol]) >= 20" of TradingBot.monitor_trades.
MinHistory == 20
\* Seconds an entry of api_cache lives: the session tokens, a min distance.
AuthTtl == 600
DistanceTtl == 3600
\* risk_amount = account_balance * 0.02 with the fixed balance 10000.0.
RiskAmount == 200
\* update_price_history keeps the last 100 prices.
HistoryCap == 100
\* TRADE_INTERVAL of bot3, seconds.
TradeInterval == 300
\* time.sleep(60) of bot3's monitor_trades after an error, seconds.
ErrorPause == 60

\* status_forcelist of the retrying session.
StatusForcelist == {429, 500, 502, 503, 504}
\* Status codes the broker answers with in the model.
Statuses == {200, 400, 503}

Variants == {"bot1", "bot4"}
\* Deal ids, in the order the broker lists their positions.
DealOrder == <<"D1", "D2", "D3">>
Deals == {DealOrder[i] : i \in DOMAIN DealOrder}
Symbols == {"BTCUSD"}

\* An optional JSON field: <<>> when the key is absent, <<v>> when present.
Absent == <<>>
Some(v) == <<v>>
Has(f) == f # <<>>
Val(f) == f[1]

\* Reference prices: the small range, plus the spec's example price 100.000
\* and a price with more than two decimals, 100.004.
Prices == (1..MaxPrice) \cup {100000, 100004}
\* Minimum distances the broker reports (0.002, 0.005, 0.3, 2.0).
MinDistances == {2, 5, 300, 2000}

\* ------------------------------------------------------------ arithmetic
Abs(x) == IF x < 0 THEN -x ELSE x

\* round(n/d, 2) for n/d in thousandths (d > 0): the multiples of 10 that
\* round() can return.  Off a tie that is the nearest one; on an exact decimal
\* tie the float that Python rounds lies on either side of it, so both
\* neighbours are possible outcomes.
Round2(n, d) ==
    LET q == n \div (10 * d)
        r == n % (10 * d)
    IN  IF 2 * r < 10 * d THEN {10 * q}
        ELSE IF 2 * r > 10 * d THEN {10 * (q + 1)}
        ELSE {10 * q, 10 * (q + 1)}

\* round(price * (1.005 if action == "BUY" else 0.995), 2)
RawTP(action, price) ==
    Round2(price * (IF action = "BUY" THEN 1005 ELSE 995), 1000)

\* round(price * (0.995 if action == "BUY" else 1.005), 2)
RawSL(action, price) ==
    Round2(price * (IF action = "BUY" THEN 995 ELSE 1005), 1000)

\* tp after "Ensure TP & SL meet minimum distance"
OrderTP(action, price, md) ==
    UNION { IF Abs(tp - price) < md
            THEN Round2(price + (IF action = "BUY" THEN md ELSE -md), 1)
            ELSE {tp} : tp \in RawTP(action, price) }

\* sl after "Ensure TP & SL meet minimum distance"
OrderSL(action, price, md) ==
    UNION { IF Abs(sl - price) < md
            THEN Round2(price - (IF action = "BUY" THEN md ELSE -md), 1)
            ELSE {sl} : sl \in RawSL(action, price) }

\* tp of the repair paths (set_take_profit_after_open, fix_missing_take_profits):
\* round(entry * (0.995 if direction == "SELL" else 1.005), 2), then the
\* minimum-distance replacement signed by direction == "BUY".
RepairTP(direction, entry, md) ==
    UNION { IF Abs(tp - entry) < md
            THEN Round2(entry + (IF direction = "BUY" THEN md ELSE -md), 1)
            ELSE {tp}
            : tp \in Round2(entry * (IF direction = "SELL" THEN 995 ELSE 1005), 1000) }

\* tp of bot4's verify_position_and_orders and of the confirmation fallback:
\* 0.5% from the entry price, no minimum-distance replacement.
PlainTP(direction, entry) ==
    Round2(entry * (IF direction = "SELL" THEN 995 ELSE 1005), 1000)

\* tp_level of create_take_profit_order: 2% from the confirmation's level.
WorkingOrderTP(direction, level) ==
    Round2(level * (IF direction = "BUY" THEN 102 ELSE 98), 100)

\* ----------------------------------------------------------------- state
VARIABLES
    variant,        \* which of the two bot files is running
    minDistance,    \* broker: the minimum TP/SL distance of the market
    positions,      \* broker: the position behind each deal id
    workingOrders,  \* broker: working orders created, as [dealId, level]
    ta,             \* the running trade_action call and its locals
    wh,             \* the last webhook request and its answer
    orderPosts,     \* POST /positions requests sent by the running trade_action
    tpReqs,         \* take-profit-setting requests sent, oldest first
    fx,             \* the running fix_missing_take_profits call
    mt,             \* the monitor_trades thread and its current pass
    cl,             \* the running CapitalComClient._make_request call
    au,             \* api_cache["auth_tokens"] and the running authenticate calls
    sg,             \* TradingBot / TrendFollowingStrategy state for one symbol
    mn,             \* the position of the main thread in __main__ and main()
    cy,             \* the current pass of main()'s loop over SYMBOLS
    ph,             \* TradingBot.price_history of one symbol, with what was passed
    ac,             \* api_cache of bot1 under a clock, and the last call through it
    fm,             \* the running fetch_all_markets call of fetch_marketsadd.py
    mo,             \* the operands and the result of a multiply call
    bt              \* TradingBot of bot3 for one symbol, its clock and its broker

vars == <<variant, minDistance, positions, workingOrders, ta, wh, orderPosts,
          tpReqs, fx, mt, cl, au, sg, mn, cy,
          ph, ac, fm, mo, bt>>

NoPosition ==
    [open |-> FALSE, epic |-> "", direction |-> "", level |-> 0,
     tp |-> Absent, sl |-> Absent]

NoConfirm ==
    [hasAffected |-> FALSE, affectedDeals |-> <<>>, dealId |-> Absent,
     fields |-> FALSE]

TaIdle ==
    [pc |-> "idle", src |-> "", symbol |-> "", action |-> "", price |-> 0,
     md |-> 0, tp |-> 0, sl |-> 0, retries |-> 0, ref |-> FALSE,
     dealId |-> Absent, opened |-> Absent, conf |-> NoConfirm,
     vdeal |-> Absent, missingTp |-> FALSE, outcome |-> ""]

WhNone ==
    [symbol |-> Absent, action |-> Absent, kind |-> "missing", num |-> 0,
     status |-> 0, started |-> FALSE]

\* GET /positions: the deal ids of the open positions, in listing order.
Listing == SelectSeq(DealOrder, LAMBDA d : positions[d].open)

\* The deal id the broker gives the next position it opens.
NextDeal == Head(SelectSeq(DealOrder, LAMBDA d : ~positions[d].open))

\* One take-profit-setting request, as the broker receives it.
TpReq(op, by, deal, level) ==
    [op |-> op, by |-> by, deal |-> deal, level |-> level,
     had |-> IF deal \in Deals THEN Has(positions[deal].tp) ELSE FALSE]

\* A broker that, on a take-profit write, drops the stop-loss of the position.
SetBrokerTPDropsSL(deal, level) ==
    IF deal \in Deals /\ positions[deal].open
    THEN [positions EXCEPT ![deal].tp = Some(level), ![deal].sl = Absent]
    ELSE positions

\* The broker applies an accepted take-profit write to an open position.
SetBrokerTP(deal, level) ==
    IF deal \in Deals /\ positions[deal].open
    THEN [positions EXCEPT ![deal].tp = Some(level)]
    ELSE positions

\* ------------------------------------------------------------ trade_action
\* A call of trade_action.  The model follows one call at a time, and starts
\* one only while no position is open: one position at a time.
trade_action_call(src, symbol, action, price) ==
    /\ ta.pc = "idle"
    /\ fx.pc = "idle"
    /\ Len(Listing) < MaxOpen
    /\ ta' = [TaIdle EXCEPT !.pc = "begin", !.src = src, !.symbol = symbol,
                            !.action = action, !.price = price]
    /\ orderPosts' = 0
    /\ tpReqs' = <<>>

\* get_min_distance(symbol) as trade_action sees it: a distance, or None in
\* bot1; in bot4 the first element of the pair, 0.1 when the fetch failed.
MinDistanceResults ==
    IF variant = "bot1"
    THEN {Absent, Some(minDistance)}
    ELSE {Some(minDistance), Some(100)}

\* A trade_action that goes on to the order without tokens.
trade_action_begin_without_tokens ==
    /\ ta.pc = "begin"
    /\ \E authOk \in BOOLEAN, md \in MinDistances :
        \E tp \in OrderTP(ta.action, ta.price, md),
           sl \in OrderSL(ta.action, ta.price, md) :
            ta' = [ta EXCEPT !.pc = "post", !.md = md, !.tp = tp, !.sl = sl,
                             !.retries = RetryTotal,
                             !.outcome = IF authOk THEN "" ELSE "auth_failed"]
    /\ UNCHANGED <<variant, bt, mo, fm, ac, ph, cy, mn, sg, au, cl, mt, minDistance, fx,
                   positions, workingOrders, wh, orderPosts, tpReqs>>

\* trade_action up to the payload: authenticate, the UPDATE_TP branch of
\* bot1, get_min_distance, TP and SL.
trade_action_begin ==
    /\ ta.pc = "begin"
    /\ \E authOk \in BOOLEAN :
        IF ~authOk
        THEN ta' = [ta EXCEPT !.pc = "done", !.outcome = "auth_failed"]
        ELSE IF variant = "bot1" /\ ta.action = "UPDATE_TP"
        THEN \* update_tp(symbol, price, cst, x_security): four arguments to a
             \* function of two, a TypeError outside trade_action's try.
             ta' = [ta EXCEPT !.pc = "done", !.outcome = "raised"]
        ELSE \E md \in MinDistanceResults :
            IF ~Has(md)
            THEN ta' = [ta EXCEPT !.pc = "done", !.outcome = "no_distance"]
            ELSE \E tp \in OrderTP(ta.action, ta.price, Val(md)),
                    sl \in OrderSL(ta.action, ta.price, Val(md)) :
                ta' = [ta EXCEPT !.pc = "post", !.md = Val(md), !.tp = tp,
                                 !.sl = sl, !.retries = RetryTotal]
    /\ UNCHANGED <<variant, bt, mo, fm, ac, ph, cy, mn, sg, au, cl, mt, minDistance, fx, positions, workingOrders, wh, orderPosts, tpReqs>>

\* The position the broker opens for an accepted order: the payload's
\* profitLevel and stopLevel may not be populated on it yet.
OpenedPosition(hasTp, hasSl) ==
    [open |-> TRUE, epic |-> ta.symbol, direction |-> ta.action,
     level |-> ta.price,
     tp |-> IF hasTp THEN Some(ta.tp) ELSE Absent,
     sl |-> IF hasSl THEN Some(ta.sl) ELSE Absent]

\* session.post(url, json=payload) through the retrying session of
\* create_session(): a status of the forcelist is retried while retries are
\* left, then raises RetryError, which trade_action's except logs.
trade_action_post ==
    /\ ta.pc = "post"
    /\ orderPosts' = orderPosts + 1
    /\ \E status \in Statuses :
        IF status \in StatusForcelist
        THEN /\ ta' = IF ta.retries > 0
                      THEN [ta EXCEPT !.retries = ta.retries - 1]
                      ELSE [ta EXCEPT !.pc = "done", !.outcome = "exception"]
             /\ UNCHANGED positions
        ELSE IF status = 200
        THEN \E hasTp \in BOOLEAN, hasSl \in BOOLEAN,
                ref \in BOOLEAN, withId \in BOOLEAN :
             LET d == NextDeal
             IN  /\ positions' = [positions EXCEPT ![d] = OpenedPosition(hasTp, hasSl)]
                 /\ ta' = [ta EXCEPT !.pc = IF ref THEN "verify_position"
                                           ELSE "verify_tp",
                                     !.ref = ref, !.opened = Some(d),
                                     !.dealId = IF withId THEN Some(d) ELSE Absent]
        ELSE /\ ta' = [ta EXCEPT !.pc = "done", !.outcome = "rejected"]
             /\ UNCHANGED positions
    /\ UNCHANGED <<variant, bt, mo, fm, ac, ph, cy, mn, sg, au, cl, mt, minDistance, fx, workingOrders, wh, tpReqs>>

\* ---------------------------------------------------- post-open verification
\* The confirmations GET /confirms/{dealReference} can answer with for the
\* deal d the order opened: affectedDeals naming it as OPENED, no
\* affectedDeals key, neither affectedDeals nor dealId, or an empty
\* affectedDeals list, or affectedDeals naming first a deal the order closed
\* and then d as OPENED; each with or without epic, level and direction.
Confirmations(d) ==
    { [hasAffected |-> TRUE,
       affectedDeals |-> <<[dealId |-> d, status |-> "OPENED"]>>,
       dealId |-> Some(d), fields |-> f] : f \in BOOLEAN }
    \cup { [hasAffected |-> TRUE,
            affectedDeals |-> <<[dealId |-> o, status |-> "CLOSED"],
                                [dealId |-> d, status |-> "OPENED"]>>,
            dealId |-> Some(d), fields |-> f] :
          f \in BOOLEAN, o \in Deals \ {d} }
    \cup { [hasAffected |-> FALSE, affectedDeals |-> <<>>,
            dealId |-> Some(d), fields |-> f] : f \in BOOLEAN }
    \cup { [hasAffected |-> FALSE, affectedDeals |-> <<>>,
            dealId |-> Absent, fields |-> f] : f \in BOOLEAN }
    \cup { [hasAffected |-> TRUE, affectedDeals |-> <<>>,
            dealId |-> Some(d), fields |-> f] : f \in BOOLEAN }

\* deal_id of verify_position: the first affected deal with status OPENED,
\* else the confirmation's own dealId.
ConfirmDealId(conf) ==
    LET opened == {i \in DOMAIN conf.affectedDeals :
                      conf.affectedDeals[i].status = "OPENED"}
        first == CHOOSE i \in opened : \A j \in opened : i <= j
    IN  IF conf.hasAffected /\ opened # {}
        THEN Some(conf.affectedDeals[first].dealId)
        ELSE conf.dealId

\* verify_position: GET /confirms/{deal_reference}.  On an answer other than
\* 200 (or an exception, logged) the function reaches "return position_data"
\* with the name unbound: the UnboundLocalError leaves
\* verify_position_and_orders and is logged by trade_action's except.
verify_position_confirm ==
    /\ ta.pc = "verify_position"
    /\ \E ok \in BOOLEAN :
        IF ~ok
        THEN ta' = [ta EXCEPT !.pc = "done", !.outcome = "exception"]
        ELSE \E conf \in Confirmations(Val(ta.opened)) :
            LET deal == ConfirmDealId(conf)
            IN  ta' = [ta EXCEPT !.conf = conf, !.vdeal = deal,
                                 !.pc = IF Has(deal) THEN "vp_details"
                                        ELSE "vp_fallback"]
    /\ UNCHANGED <<variant, bt, mo, fm, ac, ph, cy, mn, sg, au, cl, mt, minDistance, fx, positions, workingOrders, wh, orderPosts, tpReqs>>

\* get_position_details(deal_id, ...): the listed position with that dealId,
\* None when the listing fails or does not hold it.
PositionDetails(deal, ok) ==
    IF ok /\ positions[deal].open THEN Some(positions[deal]) ELSE Absent

\* verify_position with a deal id: read the full position and decide whether
\* its take-profit has to be set ("limitLevel" absent, and the confirmation
\* gives symbol, price > 0 and direction).
verify_position_details ==
    /\ ta.pc = "vp_details"
    /\ \E ok \in BOOLEAN :
        LET full == PositionDetails(Val(ta.vdeal), ok)
            repair == Has(full) /\ ~Has(Val(full).tp) /\ ta.conf.fields
                      /\ ta.price > 0
        IN  ta' = [ta EXCEPT !.missingTp = repair,
                             !.pc = IF repair THEN "vp_settp" ELSE "vpo"]
    /\ UNCHANGED <<variant, bt, mo, fm, ac, ph, cy, mn, sg, au, cl, mt, minDistance, fx, positions, workingOrders, wh, orderPosts, tpReqs>>

\* set_take_profit_after_open(deal_id, symbol, price, direction, ...).  bot1:
\* get_min_distance answers from its cache (trade_action fetched the distance
\* of this symbol seconds ago), then PUT {"limitLevel": tp}.  bot4:
\* get_min_distance returns a pair, "abs(tp - entry_price) < min_distance"
\* raises TypeError, verify_position's except logs it, no request is sent.
set_take_profit_after_open ==
    /\ ta.pc = "vp_settp"
    /\ IF variant = "bot4"
       THEN /\ ta' = [ta EXCEPT !.pc = "vpo"]
            /\ UNCHANGED <<positions, tpReqs>>
       ELSE \E tp \in RepairTP(ta.action, ta.price, ta.md), ok \in BOOLEAN :
            /\ tpReqs' = Append(tpReqs,
                   TpReq("PUT", "set_take_profit_after_open", Val(ta.vdeal), tp))
            /\ positions' = IF ok THEN SetBrokerTP(Val(ta.vdeal), tp) ELSE positions
            /\ ta' = [ta EXCEPT !.pc = "vpo"]
    /\ UNCHANGED <<variant, bt, mo, fm, ac, ph, cy, mn, sg, au, cl, mt, minDistance, fx, workingOrders, wh, orderPosts>>

\* The first listed position of a symbol (update_take_profit, set_stop_loss).
FirstOfSymbol(symbol) ==
    LET ds == SelectSeq(Listing, LAMBDA d : positions[d].epic = symbol)
    IN  IF ds = <<>> THEN Absent ELSE Some(Head(ds))

\* verify_position without a deal id: the confirmation stands in for the
\* position; without "limitLevel" in it and with symbol, price > 0 and
\* direction, update_take_profit(symbol, tp, ...) lists the positions and
\* PUTs {"limitLevel": tp} to the first one of the symbol.
verify_position_fallback ==
    /\ ta.pc = "vp_fallback"
    /\ LET pos == positions[Val(ta.opened)]
       IN  IF (pos.open /\ Has(pos.tp)) \/ ~ta.conf.fields \/ ta.price <= 0
           THEN UNCHANGED <<positions, tpReqs>>
           ELSE \E listed \in BOOLEAN :
                IF ~listed \/ ~Has(FirstOfSymbol(ta.symbol))
                THEN UNCHANGED <<positions, tpReqs>>
                ELSE \E tp \in PlainTP(ta.action, ta.price), ok \in BOOLEAN :
                     LET d == Val(FirstOfSymbol(ta.symbol))
                     IN  /\ tpReqs' = Append(tpReqs,
                                TpReq("PUT", "update_take_profit", d, tp))
                         /\ positions' = IF ok THEN SetBrokerTP(d, tp) ELSE positions
    /\ ta' = [ta EXCEPT !.pc = "vpo"]
    /\ UNCHANGED <<variant, bt, mo, fm, ac, ph, cy, mn, sg, au, cl, mt, minDistance, fx, workingOrders, wh, orderPosts>>

\* verify_position_and_orders after verify_position returned: with
\* "affectedDeals" in the confirmation, deal_id = affectedDeals[0]["dealId"]
\* (IndexError on an empty list, logged by trade_action's except); bot1 then
\* looks for a LIMIT working order of the deal, bot4 for "limitLevel" on the
\* position.
verify_position_and_orders ==
    /\ ta.pc = "vpo"
    /\ IF ~ta.conf.hasAffected
       THEN ta' = [ta EXCEPT !.pc = "verify_tp"]
       ELSE IF ta.conf.affectedDeals = <<>>
       THEN ta' = [ta EXCEPT !.pc = "done", !.outcome = "exception"]
       ELSE LET deal == ta.conf.affectedDeals[1].dealId
            IN  \E ok \in BOOLEAN :
                IF variant = "bot1"
                THEN LET found == ok /\ \E o \in workingOrders : o.dealId = deal
                     IN  ta' = [ta EXCEPT !.vdeal = Some(deal), !.pc =
                                  IF found THEN "verify_tp" ELSE "vpo_create"]
                ELSE LET details == PositionDetails(deal, ok)
                     IN  ta' = [ta EXCEPT !.vdeal = Some(deal), !.pc =
                                  IF Has(details) /\ ~Has(Val(details).tp)
                                  THEN "vpo_settp" ELSE "verify_tp"]
    /\ UNCHANGED <<variant, bt, mo, fm, ac, ph, cy, mn, sg, au, cl, mt, minDistance, fx, positions, workingOrders, wh, orderPosts, tpReqs>>

\* create_take_profit_order(deal_id, position) of bot1: float(level) raises
\* on a confirmation without level; else authenticate and
\* POST /workingorders with a LIMIT order 2% from the level.  The broker
\* keeps working orders of open positions only.
create_take_profit_order ==
    /\ ta.pc = "vpo_create"
    /\ IF ~ta.conf.fields
       THEN /\ ta' = [ta EXCEPT !.pc = "done", !.outcome = "exception"]
            /\ UNCHANGED <<workingOrders, tpReqs>>
       ELSE \E authOk \in BOOLEAN :
            IF ~authOk
            THEN /\ ta' = [ta EXCEPT !.pc = "verify_tp"]
                 /\ UNCHANGED <<workingOrders, tpReqs>>
            ELSE \E level \in WorkingOrderTP(ta.action, ta.price), ok \in BOOLEAN :
                 /\ tpReqs' = Append(tpReqs,
                        TpReq("POST_workingorder", "create_take_profit_order",
                              Val(ta.vdeal), level))
                 /\ workingOrders' =
                        IF ok /\ positions[Val(ta.vdeal)].open
                        THEN workingOrders \cup
                                 {[dealId |-> Val(ta.vdeal), level |-> level]}
                        ELSE workingOrders
                 /\ ta' = [ta EXCEPT !.pc = "verify_tp"]
    /\ UNCHANGED <<variant, bt, mo, fm, ac, ph, cy, mn, sg, au, cl, mt, minDistance, fx, positions, wh, orderPosts>>

\* set_take_profit_by_deal_id(deal_id, tp, ...) as bot4's
\* verify_position_and_orders calls it: tp 0.5% from the position's level
\* (the order's price and direction), PUT {"limitLevel": tp}.
verify_position_and_orders_set_tp ==
    /\ ta.pc = "vpo_settp"
    /\ \E tp \in PlainTP(ta.action, ta.price), ok \in BOOLEAN :
        /\ tpReqs' = Append(tpReqs,
               TpReq("PUT", "set_take_profit_by_deal_id", Val(ta.vdeal), tp))
        /\ positions' = IF ok THEN SetBrokerTP(Val(ta.vdeal), tp) ELSE positions
    /\ ta' = [ta EXCEPT !.pc = "verify_tp"]
    /\ UNCHANGED <<variant, bt, mo, fm, ac, ph, cy, mn, sg, au, cl, mt, minDistance, fx, workingOrders, wh, orderPosts>>

\* verify_tp(deal_id, tp): deal_id is the order answer's dealId (bot4 skips
\* the call without one; bot1 then asks for /positions/None, which the broker
\* does not answer with 200).  With 200 and no "profitLevel" on the position
\* update_tp follows.
verify_tp ==
    /\ ta.pc = "verify_tp"
    /\ IF ~Has(ta.dealId)
       THEN ta' = [ta EXCEPT !.pc = "done", !.outcome = "ok"]
       ELSE \E ok \in BOOLEAN :
            LET pos == positions[Val(ta.dealId)]
            IN  ta' = IF ok /\ pos.open /\ ~Has(pos.tp)
                      THEN [ta EXCEPT !.pc = "vt_update"]
                      ELSE [ta EXCEPT !.pc = "done", !.outcome = "ok"]
    /\ UNCHANGED <<variant, bt, mo, fm, ac, ph, cy, mn, sg, au, cl, mt, minDistance, fx, positions, workingOrders, wh, orderPosts, tpReqs>>

\* update_tp(deal_id, new_tp): authenticate, then PUT the new take-profit to
\* /positions/{deal_id}.
update_tp(deal, level, by) ==
    \E authOk \in BOOLEAN :
        IF ~authOk
        THEN UNCHANGED <<positions, tpReqs>>
        ELSE \E ok \in BOOLEAN :
            /\ tpReqs' = Append(tpReqs, TpReq("PUT", by, deal, level))
            /\ positions' = IF ok THEN SetBrokerTP(deal, level) ELSE positions

verify_tp_update ==
    /\ ta.pc = "vt_update"
    /\ update_tp(Val(ta.dealId), ta.tp, "verify_tp")
    /\ ta' = [ta EXCEPT !.pc = "done", !.outcome = "ok"]
    /\ UNCHANGED <<variant, bt, mo, fm, ac, ph, cy, mn, sg, au, cl, mt, minDistance, fx, workingOrders, wh, orderPosts>>

\* trade_action has returned (or raised) to its caller.
trade_action_return ==
    /\ ta.pc = "done"
    /\ ta' = TaIdle
    /\ orderPosts' = 0
    /\ tpReqs' = <<>>
    /\ UNCHANGED <<variant, bt, mo, fm, ac, ph, cy, mn, sg, au, cl, mt, minDistance, fx, positions, workingOrders, wh>>

\* ------------------------------------------------ fix_missing_take_profits
FxIdle == [pc |-> "idle", list |-> <<>>, i |-> 0]

\* "limitLevel" not in position or position["limitLevel"] is None
LimitLevelMissing(position) == ~Has(position.tp)

\* fix_missing_take_profits up to its loop: authenticate and GET /positions.
\* The model runs it between trade_action calls.
fix_missing_take_profits_begin ==
    /\ fx.pc = "idle"
    /\ ta.pc = "idle"
    /\ \E ok \in BOOLEAN :
        fx' = IF ok
              THEN [pc |-> "loop", i |-> 1,
                    list |-> [k \in DOMAIN Listing |->
                                [dealId |-> Listing[k]] @@ positions[Listing[k]]]]
              ELSE [FxIdle EXCEPT !.pc = "done"]
    /\ tpReqs' = <<>>
    /\ UNCHANGED <<variant, bt, mo, fm, ac, ph, cy, mn, sg, au, cl, mt, minDistance, positions, workingOrders, ta, wh, orderPosts>>

\* One position of the loop.  Without a take-profit: bot1 takes the distance
\* of get_min_distance (1.0 when None) and PUTs {"limitLevel": tp} through
\* set_take_profit_by_deal_id; bot4 compares a number with the pair that its
\* get_min_distance returns, and the TypeError ends the sweep in the outer
\* except.
fix_missing_take_profits_step ==
    /\ fx.pc = "loop"
    /\ IF fx.i > Len(fx.list)
       THEN /\ fx' = [fx EXCEPT !.pc = "done"]
            /\ UNCHANGED <<positions, tpReqs>>
       ELSE LET p == fx.list[fx.i]
            IN  IF ~LimitLevelMissing(p)
                THEN /\ fx' = [fx EXCEPT !.i = fx.i + 1]
                     /\ UNCHANGED <<positions, tpReqs>>
                ELSE IF variant = "bot4"
                THEN /\ fx' = [fx EXCEPT !.pc = "done"]
                     /\ UNCHANGED <<positions, tpReqs>>
                ELSE \E md \in {minDistance, DefaultRepairDistance},
                        ok \in BOOLEAN :
                     \E tp \in RepairTP(p.direction, p.level, md) :
                        /\ tpReqs' = Append(tpReqs,
                               TpReq("PUT", "fix_missing_take_profits", p.dealId, tp))
                        /\ positions' = IF ok THEN SetBrokerTP(p.dealId, tp)
                                        ELSE positions
                        /\ fx' = [fx EXCEPT !.i = fx.i + 1]
    /\ UNCHANGED <<variant, bt, mo, fm, ac, ph, cy, mn, sg, au, cl, mt, minDistance, workingOrders, ta, wh, orderPosts>>

\* fix_missing_take_profits as main() of bot1 calls it at startup, while the
\* webhook thread that __main__ started before main() may be inside
\* trade_action: authenticate and GET /positions.
fix_missing_take_profits_at_startup ==
    /\ variant = "bot1"
    /\ fx.pc = "idle"
    /\ \E ok \in BOOLEAN :
        fx' = IF ok
              THEN [pc |-> "loop", i |-> 1,
                    list |-> [k \in DOMAIN Listing |->
                                [dealId |-> Listing[k]] @@ positions[Listing[k]]]]
              ELSE [FxIdle EXCEPT !.pc = "done"]
    /\ UNCHANGED <<variant, bt, minDistance, positions, workingOrders, ta, wh,
                   orderPosts, tpReqs, mt, cl, au, sg, mn, cy, ph, ac, fm, mo>>

\* fix_missing_take_profits has returned.
fix_missing_take_profits_return ==
    /\ fx.pc = "done"
    /\ fx' = FxIdle
    /\ tpReqs' = <<>>
    /\ UNCHANGED <<variant, bt, mo, fm, ac, ph, cy, mn, sg, au, cl, mt, minDistance, positions, workingOrders, ta, wh, orderPosts>>

\* ------------------------------------------------------------------ callers
\* The "price" member of a webhook body: missing, null, a text that float()
\* rejects, or a number.
WebhookPrices ==
    {[kind |-> k, num |-> 0] : k \in {"missing", "null", "text"}}
    \cup {[kind |-> "number", num |-> n] : n \in {-8, 0, 8}}

WebhookSymbols == {Absent, Some("")} \cup {Some(s) : s \in Symbols}
WebhookActions ==
    {Absent, Some(""), Some("BUY"), Some("SELL"), Some("UPDATE_TP"), Some("HOLD")}

\* "not x" of Python for an optional text member.
Falsy(f) == ~Has(f) \/ Val(f) = ""

\* What webhook() answers and whether it starts trade_action, with the price
\* it passes.  bot1: float(data.get("price", 0)), 400 on ValueError/TypeError.
\* bot4: 400 when price is None, float(price), 500 from the outer except.
WebhookDecision(symbol, action, price) ==
    IF Falsy(symbol) \/ Falsy(action)
    THEN [status |-> 400, started |-> FALSE, price |-> 0]
    ELSE IF variant = "bot1"
    THEN CASE price.kind = "missing" -> [status |-> 200, started |-> TRUE, price |-> 0]
           [] price.kind \in {"null", "text"} ->
                  [status |-> 400, started |-> FALSE, price |-> 0]
           [] OTHER -> [status |-> 200, started |-> TRUE, price |-> price.num]
    ELSE CASE price.kind \in {"missing", "null"} ->
                  [status |-> 400, started |-> FALSE, price |-> 0]
           [] price.kind = "text" -> [status |-> 500, started |-> FALSE, price |-> 0]
           [] OTHER -> [status |-> 200, started |-> TRUE, price |-> price.num]

\* POST /webhook.
webhook ==
    /\ ta.pc = "idle"
    /\ wh.status = 0
    /\ \E symbol \in WebhookSymbols, action \in WebhookActions,
          price \in WebhookPrices :
        LET dec == WebhookDecision(symbol, action, price)
        IN  /\ wh' = [symbol |-> symbol, action |-> action, kind |-> price.kind,
                      num |-> price.num, status |-> dec.status,
                      started |-> dec.started]
            /\ IF dec.started
               THEN trade_action_call("webhook", Val(symbol), Val(action), dec.price)
               ELSE UNCHANGED <<ta, orderPosts, tpReqs>>
    /\ UNCHANGED <<variant, bt, mo, fm, ac, ph, cy, mn, sg, au, cl, mt, minDistance, fx, positions, workingOrders>>

\* The webhook's answer has been delivered.
webhook_answered ==
    /\ wh.status # 0
    /\ wh' = WhNone
    /\ UNCHANGED <<variant, bt, mo, fm, ac, ph, cy, mn, sg, au, cl, mt, minDistance, fx, positions, workingOrders, ta, orderPosts, tpReqs>>

\* One symbol of the market-analysis cycle of main() whose trend is BUY or
\* SELL with a latest price: bot4 first closes the listed positions of the
\* symbol in the other direction (close_trade), then trade_action runs.
main_cycle_trade ==
    /\ \E symbol \in Symbols, trend \in {"BUY", "SELL"}, price \in Prices :
        /\ trade_action_call("main", symbol, trend, price)
        /\ \E closed \in BOOLEAN :
            positions' =
                IF variant = "bot4" /\ closed
                THEN [d \in Deals |->
                        IF positions[d].open /\ positions[d].epic = symbol
                           /\ positions[d].direction # trend
                        THEN NoPosition ELSE positions[d]]
                ELSE positions
    /\ workingOrders' = {o \in workingOrders : positions'[o.dealId].open}
    /\ UNCHANGED <<variant, bt, mo, fm, ac, ph, cy, mn, sg, au, cl, mt, minDistance, fx, wh>>

\* The broker closes a position on its own (take-profit or stop-loss hit).
broker_close ==
    /\ \E d \in Deals :
        /\ positions[d].open
        /\ positions' = [positions EXCEPT ![d] = NoPosition]
        /\ workingOrders' = {o \in workingOrders : o.dealId # d}
    /\ UNCHANGED <<variant, bt, mo, fm, ac, ph, cy, mn, sg, au, cl, mt, minDistance, fx, ta, wh, orderPosts, tpReqs>>

\* ------------------------------------------------------------ specification
\* ------------------------------------------------------------ monitor_trades
\* The monitor thread between two passes.  brokerOk: the broker answers every
\* request of the thread with success for the whole run.  stops: the
\* stop-loss moves of the pass that the broker applied, each with the
\* position it changed and the current price that triggered it.
MtIdle(brokerOk) ==
    [pc |-> "sleep", list |-> <<>>, i |-> 0, visited |-> {}, writes |-> <<>>,
     stops |-> {}, brokerOk |-> brokerOk]

\* get_latest_price(symbol) of bot4: the last bid, 0 when no data came back.
LatestPrices == {0, 100000, 102000}

\* new_tp of the ratchet: bot1 moves it by TP_MOVE_PERCENT with the position's
\* direction, bot4 always computes entry_price * (1 + TP_MOVE_PERCENT).
RatchetTP(direction, entry) ==
    IF variant = "bot1" /\ direction = "SELL"
    THEN Round2(entry * 995, 1000)
    ELSE Round2(entry * 1005, 1000)

\* "current_price > entry_price * (1 + BREAKEVEN_TRIGGER)" of bot4.
BreakevenReached(current, entry) == current * 100 > entry * 101

\* set_stop_loss(symbol, new_sl) of bot4: lists the positions and PUTs
\* {"stopLevel": new_sl} to every one of the symbol.
set_stop_loss(symbol, new_sl, ok) ==
    [d \in Deals |->
        IF ok /\ positions[d].open /\ positions[d].epic = symbol
        THEN [positions[d] EXCEPT !.sl = Some(new_sl)]
        ELSE positions[d]]

\* The positions a set_stop_loss(symbol, new_sl) changes, as records.
StopMoves(symbol, new_sl, current, ok) ==
    {[deal |-> d, direction |-> positions[d].direction,
      entry |-> positions[d].level, current |-> current, level |-> new_sl] :
        d \in {e \in Deals : ok /\ positions[e].open /\ positions[e].epic = symbol}}

\* Start of a pass: authenticate and GET /positions.  Without tokens or on a
\* status other than 200 the pass is over; an exception of the request is
\* logged by bot1's outer try and leaves bot4's thread, which has none.
monitor_trades_list ==
    /\ mt.pc = "sleep"
    /\ ta.pc = "idle" /\ fx.pc = "idle"
    /\ \E answer \in IF mt.brokerOk THEN {"ok"}
                     ELSE {"ok", "no_tokens", "status", "exception"} :
        mt' = [mt EXCEPT
                 !.pc = IF answer = "ok" THEN "loop"
                        ELSE IF answer = "exception" /\ variant = "bot4"
                             THEN "dead" ELSE "sleep",
                 !.list = IF answer = "ok"
                          THEN [k \in DOMAIN Listing |->
                                   [dealId |-> Listing[k]] @@ positions[Listing[k]]]
                          ELSE <<>>,
                 !.i = 0, !.visited = {}, !.writes = <<>>, !.stops = {}]
    /\ UNCHANGED <<variant, bt, mo, fm, ac, ph, cy, mn, sg, au, cl, minDistance, fx, positions, workingOrders, ta, wh,
                   orderPosts, tpReqs>>

\* One position of the pass in bot1.  float(trade.get("limitLevel", 0)) is 0
\* without the key and raises on null; a wanted update calls
\* trade_action(symbol, "UPDATE_TP", new_tp, ""), which returns without
\* tokens and otherwise calls the two-parameter update_tp with four
\* arguments: TypeError.  The try around the position logs either error and
\* the loop goes on; no request leaves the thread.
monitor_trades_step_bot1 ==
    /\ variant = "bot1"
    /\ mt.pc = "loop" /\ mt.i < Len(mt.list)
    /\ mt' = [mt EXCEPT !.i = mt.i + 1, !.visited = mt.visited \cup {mt.i + 1}]
    /\ UNCHANGED <<variant, bt, mo, fm, ac, ph, cy, mn, sg, au, cl, minDistance, fx, positions, workingOrders, ta, wh,
                   orderPosts, tpReqs>>

\* One position of the pass in bot4.  No current price: continue.
\* float(trade["profitLevel"]) raises without the key or on null, and nothing
\* catches it: the thread ends.  Otherwise new_tp > profitLevel sends
\* update_tp(symbol, new_tp), a PUT {"limitLevel": new_tp} to
\* /positions/{symbol}, which names no deal; then the breakeven step.
monitor_trades_step_bot4 ==
    /\ variant = "bot4"
    /\ mt.pc = "loop" /\ mt.i < Len(mt.list)
    /\ LET trade == mt.list[mt.i + 1]
           visit == [mt EXCEPT !.i = mt.i + 1,
                               !.visited = mt.visited \cup {mt.i + 1}]
       IN  \E current \in LatestPrices, ok \in {TRUE, mt.brokerOk} :
           LET seen == IF BreakevenReached(current, trade.level) /\ Has(trade.tp)
                       THEN [visit EXCEPT !.stops =
                               @ \cup StopMoves(trade.epic, trade.level, current, ok)]
                       ELSE visit
           IN
           IF current = 0
           THEN mt' = seen /\ UNCHANGED positions
           ELSE IF ~Has(trade.tp)
           THEN mt' = [seen EXCEPT !.pc = "dead"] /\ UNCHANGED positions
           ELSE \E new_tp \in RatchetTP(trade.direction, trade.level) :
                /\ mt' = IF new_tp > Val(trade.tp)
                         THEN [seen EXCEPT !.writes = Append(mt.writes,
                                   [deal |-> trade.dealId, id |-> trade.epic,
                                    direction |-> trade.direction,
                                    current |-> Val(trade.tp),
                                    level |-> new_tp])]
                         ELSE seen
                /\ positions' = IF BreakevenReached(current, trade.level)
                                THEN set_stop_loss(trade.epic, trade.level, ok)
                                ELSE positions
    /\ UNCHANGED <<variant, bt, mo, fm, ac, ph, cy, mn, sg, au, cl, minDistance, fx, workingOrders, ta, wh, orderPosts,
                   tpReqs>>

\* End of the pass: time.sleep(TRADE_INTERVAL).
monitor_trades_sleep ==
    /\ mt.pc = "loop" /\ mt.i = Len(mt.list)
    /\ mt' = [mt EXCEPT !.pc = "sleep"]
    /\ UNCHANGED <<variant, bt, mo, fm, ac, ph, cy, mn, sg, au, cl, minDistance, fx, positions, workingOrders, ta, wh,
                   orderPosts, tpReqs>>

\* --------------------------------------------- CapitalComClient._make_request
ClIdle ==
    [pc |-> "idle", method |-> "", endpoint |-> "", depth |-> 0, sends |-> 0,
     auths |-> 0, tokens |-> FALSE, result |-> Absent]

Methods == {"GET", "POST", "PUT", "DELETE", "PATCH"}
Endpoints == {"/positions", "/prices/BTCUSD"}
\* What the session call of _make_request ends with: a status code, or 0 for
\* an exception of the transport.
Answers == {0, 200, 401, 404}
\* What _authenticate ends with: tokens stored in the session headers, or
\* nothing changed (status other than 200, tokens missing, exception).
AuthOutcomes == {"tokens", "nothing"}

\* A call of _make_request(method, endpoint, data) by one of the public
\* methods of the client.
make_request_call ==
    /\ cl.pc = "idle"
    /\ \E method \in Methods, endpoint \in Endpoints, tokens \in BOOLEAN :
        cl' = [ClIdle EXCEPT !.pc = "send", !.method = method,
                             !.endpoint = endpoint, !.tokens = tokens]
    /\ UNCHANGED <<variant, bt, mo, fm, ac, ph, cy, mn, sg, au, minDistance, positions, workingOrders, ta, wh,
                   orderPosts, tpReqs, fx, mt>>

\* The body of one _make_request frame up to the status check: sign, send by
\* method, and on 401 go on to re-authenticate.  A method outside the four
\* leaves "response" unbound and the interpreter out of frames raises
\* RecursionError; "except Exception" turns both, and a transport exception,
\* into the result None.
make_request_send ==
    /\ cl.pc = "send"
    /\ IF cl.depth >= RecursionLimit \/ cl.method = "PATCH"
       THEN cl' = [cl EXCEPT !.pc = "done", !.result = Some("None")]
       ELSE \E answer \in Answers :
            cl' = [cl EXCEPT
                     !.sends = cl.sends + 1,
                     !.pc = IF answer = 401 THEN "auth" ELSE "done",
                     !.result = IF answer = 401 THEN Absent
                                ELSE IF answer = 0 THEN Some("None")
                                ELSE Some(answer)]
    /\ UNCHANGED <<variant, bt, mo, fm, ac, ph, cy, mn, sg, au, minDistance, positions, workingOrders, ta, wh,
                   orderPosts, tpReqs, fx, mt>>

\* "self._authenticate(); return self._make_request(method, endpoint, data)":
\* whatever the authentication did, the request is made again one frame
\* deeper.
make_request_reauthenticate ==
    /\ cl.pc = "auth"
    /\ \E outcome \in AuthOutcomes :
        cl' = [cl EXCEPT !.auths = cl.auths + 1,
                         !.tokens = IF outcome = "tokens" THEN TRUE ELSE cl.tokens,
                         !.depth = cl.depth + 1,
                         !.pc = "send"]
    /\ UNCHANGED <<variant, bt, mo, fm, ac, ph, cy, mn, sg, au, minDistance, positions, workingOrders, ta, wh,
                   orderPosts, tpReqs, fx, mt>>

\* The outermost frame has returned to the caller.
make_request_return ==
    /\ cl.pc = "done"
    /\ cl' = ClIdle
    /\ UNCHANGED <<variant, bt, mo, fm, ac, ph, cy, mn, sg, au, minDistance, positions, workingOrders, ta, wh,
                   orderPosts, tpReqs, fx, mt>>

\* ------------------------------------------------------------- authenticate
\* The threads of bot1 that call authenticate(): the trading cycle of main(),
\* the monitor_trades thread and a trade_action thread started by a webhook.
Callers == {"main", "monitor_trades", "webhook"}

\* api_cache is empty at start.  token 0: no "auth_tokens" entry.  epoch
\* counts the times the entry has been found missing or has expired; sends[e]
\* counts the POST /session requests of callers that found the cache invalid
\* in epoch e; requests counts all of them and issued the tokens the broker
\* has handed out, in the order the requests reached it.
AuIdle ==
    [token |-> 0, valid |-> FALSE, epoch |-> 0, issued |-> 0, requests |-> 0,
     sends |-> [e \in 0..MaxExpiries |-> 0],
     thr |-> [c \in Callers |-> [pc |-> "idle", seen |-> 0, token |-> 0]]]

\* "cache_key in api_cache and time.time() < api_cache[cache_key]['expiry']":
\* a hit returns the cached pair and changes nothing; a miss goes on to the
\* jitter sleep, with no lock held.
authenticate_check(c) ==
    /\ au.thr[c].pc = "idle"
    /\ ~au.valid
    /\ au' = [au EXCEPT !.thr[c] = [pc |-> "miss", seen |-> au.epoch,
                                    token |-> 0]]
    /\ UNCHANGED <<variant, bt, mo, fm, ac, ph, cy, mn, sg, minDistance, positions, workingOrders, ta, wh,
                   orderPosts, tpReqs, fx, mt, cl>>

\* After the sleep: session.post(url, ...).  The broker answers 200 with a new
\* pair of tokens, or with another status.
authenticate_post(c) ==
    /\ au.thr[c].pc = "miss"
    /\ au.requests < MaxTokens
    /\ \E ok \in BOOLEAN :
        au' = [au EXCEPT
                 !.sends[au.thr[c].seen] = @ + 1,
                 !.requests = @ + 1,
                 !.issued = IF ok THEN @ + 1 ELSE @,
                 !.thr[c] = IF ok
                            THEN [pc |-> "sent", seen |-> au.thr[c].seen,
                                  token |-> au.issued + 1]
                            ELSE [pc |-> "idle", seen |-> 0, token |-> 0]]
    /\ UNCHANGED <<variant, bt, mo, fm, ac, ph, cy, mn, sg, minDistance, positions, workingOrders, ta, wh,
                   orderPosts, tpReqs, fx, mt, cl>>

\* The 200 answer has arrived: api_cache[cache_key] = {cst, x_security,
\* expiry: now + 600}, and the pair is returned.
authenticate_store(c) ==
    /\ au.thr[c].pc = "sent"
    /\ au' = [au EXCEPT !.token = au.thr[c].token, !.valid = TRUE,
                        !.thr[c] = [pc |-> "idle", seen |-> 0, token |-> 0]]
    /\ UNCHANGED <<variant, bt, mo, fm, ac, ph, cy, mn, sg, minDistance, positions, workingOrders, ta, wh,
                   orderPosts, tpReqs, fx, mt, cl>>

\* Ten minutes have passed since the entry was stored.
auth_cache_expires ==
    /\ au.valid
    /\ au.epoch < MaxExpiries
    /\ au' = [au EXCEPT !.valid = FALSE, !.epoch = @ + 1]
    /\ UNCHANGED <<variant, bt, mo, fm, ac, ph, cy, mn, sg, minDistance, positions, workingOrders, ta, wh,
                   orderPosts, tpReqs, fx, mt, cl>>

\* ------------------------------------------ TrendFollowingStrategy, TradingBot
\* The signal get_signal returns: action "None" for None, else BUY or SELL
\* with the quantity as the fraction num/den (den = 0: the float inf).
NoSignal == [action |-> "None", num |-> 0, den |-> 1]

\* TradingBot.__init__: empty price history and strategy.positions.  rsi and
\* atr are the latest indicator values the last get_signal call saw, had
\* whether the symbol was in strategy.positions at that call; prev is the
\* last intent returned before that call.
SgInit ==
    [hist |-> <<>>, turns |-> 0, held |-> FALSE, qty |-> NoSignal,
     called |-> FALSE, by |-> "", had |-> FALSE, last |-> NoSignal,
     prev |-> "None", rsi |-> 0, atr |-> 0]

\* Prices get_market_price answers with, RSI and ATR values of the indicator
\* library (prices and ATR in thousandths).
TickPrices == {100000, 102000}
RsiValues == {50, 70, 80}
AtrValues == {0, 500}

RECURSIVE SumSeq(_)
SumSeq(q) == IF q = <<>> THEN 0 ELSE Head(q) + SumSeq(Tail(q))

\* An indicator library that pads the windows that are not full: one value
\* for every price.
SeriesLenPadded(n, w) == n

\* Number of values of an indicator of window w over n prices: one for every
\* full window.
SeriesLen(n, w) == IF n >= w THEN n - w + 1 ELSE 0

\* w times the moving average of window w that ends back ticks before the
\* last price.
SmaSum(h, w, back) == SumSeq(SubSeq(h, Len(h) - back - w + 1, Len(h) - back))

\* Both averages have a value back ticks before the last price; a comparison
\* with a missing value is false.
WindowsFull(h, back) == Len(h) - back >= SmaLong

\* sma_short[-1-back] > sma_long[-1-back], and the same with <=, < and >=.
ShortAbove(h, back) ==
    /\ WindowsFull(h, back)
    /\ SmaSum(h, SmaShort, back) * SmaLong > SmaSum(h, SmaLong, back) * SmaShort
ShortAtMost(h, back) ==
    /\ WindowsFull(h, back)
    /\ SmaSum(h, SmaShort, back) * SmaLong <= SmaSum(h, SmaLong, back) * SmaShort
ShortBelow(h, back) ==
    /\ WindowsFull(h, back)
    /\ SmaSum(h, SmaShort, back) * SmaLong < SmaSum(h, SmaLong, back) * SmaShort
ShortAtLeast(h, back) ==
    /\ WindowsFull(h, back)
    /\ SmaSum(h, SmaShort, back) * SmaLong >= SmaSum(h, SmaLong, back) * SmaShort

\* "len(atr) < 2 or len(sma_short) < 2 or len(sma_long) < 2 or len(rsi) < 2".
NotEnoughData(h) ==
    \/ SeriesLen(Len(h), AtrPeriod + 1) < 2
    \/ SeriesLen(Len(h), SmaShort) < 2
    \/ SeriesLen(Len(h), SmaLong) < 2
    \/ SeriesLen(Len(h), RsiPeriod + 1) < 2

\* A buy condition without "crossover just occurred".
BuyConditionUptrend(h, rsi) == ShortAbove(h, 0) /\ rsi < RsiOverbought

\* The buy condition of get_signal: uptrend, crossover just occurred, not
\* overbought.
BuyCondition(h, rsi) ==
    ShortAbove(h, 0) /\ ShortAtMost(h, 1) /\ rsi < RsiOverbought

\* The sell condition: "a and b or c" of Python is (a and b) or c.
SellCondition(h, rsi) ==
    (ShortBelow(h, 0) /\ ShortAtLeast(h, 1)) \/ rsi > RsiOverbought

\* A get_signal that does not look at self.positions before buying.
get_signal_buy_always(h, held, qty, rsi, atr) ==
    IF NotEnoughData(h) THEN {NoSignal}
    ELSE IF BuyCondition(h, rsi) /\ atr > 0
         THEN {[action |-> "BUY", num |-> RiskAmount * 1000, den |-> 2 * atr]}
         ELSE {NoSignal}

\* get_signal(symbol, current_price, price_history, account_balance) with the
\* latest RSI and ATR.  position_size = risk_amount / (current_price -
\* stop_loss) divides by 2 * ATR; with ATR = 0 the division gives inf for a
\* numpy float and raises ZeroDivisionError, turned into None by the except,
\* for a Python float: both results are in the set.
get_signal(h, held, qty, rsi, atr) ==
    IF NotEnoughData(h) THEN {NoSignal}
    ELSE IF ~held
    THEN IF BuyCondition(h, rsi)
         THEN {[action |-> "BUY", num |-> RiskAmount * 1000, den |-> 2 * atr]}
              \cup (IF atr = 0 THEN {NoSignal} ELSE {})
         ELSE {NoSignal}
    ELSE IF SellCondition(h, rsi)
         THEN {[action |-> "SELL", num |-> qty.num, den |-> qty.den]}
         ELSE {NoSignal}

\* update_position(symbol, action, quantity).
update_position(action, signal) ==
    IF action = "BUY" THEN [sg EXCEPT !.held = TRUE, !.qty = signal]
    ELSE IF action = "SELL" THEN [sg EXCEPT !.held = FALSE, !.qty = NoSignal]
    ELSE sg

\* The record of one get_signal call in sg.
Called(by, signal, rsi, atr) ==
    [sg EXCEPT !.called = TRUE, !.by = by, !.had = sg.held, !.last = signal,
               !.prev = IF sg.last.action # "None" THEN sg.last.action
                        ELSE sg.prev,
               !.rsi = rsi, !.atr = atr]

\* An update_price_history that keeps the first HistoryCap prices.
update_price_history_keep_first(h, price) ==
    IF ~Has(price) THEN h
    ELSE LET appended == Append(h, Val(price))
         IN  IF Len(appended) > HistoryCap
             THEN SubSeq(appended, 1, HistoryCap)
             ELSE appended

\* update_price_history(symbol, price): nothing on None; else append and keep
\* the last HistoryCap prices.
update_price_history(h, price) ==
    IF ~Has(price) THEN h
    ELSE LET appended == Append(h, Val(price))
         IN  IF Len(appended) > HistoryCap
             THEN SubSeq(appended, Len(appended) - HistoryCap + 1, Len(appended))
             ELSE appended

\* The history of one symbol before any call; passed: the prices other than
\* None the calls were given, in arrival order; last: what the latest call
\* was given.
PhInit == [hist |-> <<>>, passed |-> <<>>, last |-> Absent, calls |-> 0]

\* A call of update_price_history with None or with a price; the k-th price
\* is the number k, so that every price tells its arrival.
update_price_history_call ==
    /\ Len(ph.passed) < MaxCalls
    /\ \E price \in {Absent, Some(Len(ph.passed) + 1)} :
        ph' = [hist |-> update_price_history(ph.hist, price),
               passed |-> IF Has(price) THEN Append(ph.passed, Val(price))
                          ELSE ph.passed,
               last |-> price,
               calls |-> IF ph.calls < 2 THEN ph.calls + 1 ELSE ph.calls]
    /\ UNCHANGED <<variant, bt, mo, fm, ac, minDistance, positions, workingOrders, ta, wh,
                   orderPosts, tpReqs, fx, mt, cl, au, sg, mn, cy>>

\* One symbol of one pass of TradingBot.monitor_trades: fetch the price (0:
\* get_market_price gave None), extend the history, ask the strategy when
\* the history has MinHistory prices, and execute_trade a signal:
\* place_market_order, then update_position when the order went through.
\* The loop sleeps TRADE_INTERVAL between two passes, so execute_trade's
\* "too soon since last trade" does not skip.
bot3_monitor_symbol ==
    /\ Len(sg.hist) < MaxHistory
    /\ \E price \in TickPrices \cup {0} :
        IF price = 0
        THEN sg' = [sg EXCEPT !.called = FALSE, !.by = "monitor_trades"]
        ELSE LET turn == sg.hist # <<>> /\ sg.hist[Len(sg.hist)] # price
                 h == update_price_history(sg.hist, Some(price))
                 grown == [sg EXCEPT !.hist = h,
                                     !.turns = IF turn THEN @ + 1 ELSE @]
             IN  /\ turn => sg.turns < MaxTurns
                 /\ IF Len(h) < MinHistory
                    THEN sg' = [grown EXCEPT !.called = FALSE,
                                             !.by = "monitor_trades"]
                    ELSE \E rsi \in RsiValues, atr \in AtrValues, ok \in BOOLEAN :
                         \E signal \in get_signal(h, sg.held, sg.qty, rsi, atr) :
                            LET seen == [Called("monitor_trades", signal, rsi, atr)
                                            EXCEPT !.hist = h, !.turns = grown.turns]
                            IN  sg' = IF signal.action # "None" /\ ok
                                      THEN [seen EXCEPT
                                              !.held = (signal.action = "BUY"),
                                              !.qty = IF signal.action = "BUY"
                                                      THEN signal ELSE NoSignal]
                                      ELSE seen
    /\ UNCHANGED <<variant, bt, mo, fm, ac, ph, cy, mn, minDistance, positions, workingOrders, ta, wh,
                   orderPosts, tpReqs, fx, mt, cl, au>>

\* get_signal called directly on the current history.
strategy_get_signal ==
    /\ \E rsi \in RsiValues, atr \in AtrValues :
       \E signal \in get_signal(sg.hist, sg.held, sg.qty, rsi, atr) :
          sg' = Called("direct", signal, rsi, atr)
    /\ UNCHANGED <<variant, bt, mo, fm, ac, ph, cy, mn, minDistance, positions, workingOrders, ta, wh,
                   orderPosts, tpReqs, fx, mt, cl, au>>

\* update_position called directly with a quantity.
strategy_update_position ==
    /\ \E action \in {"BUY", "SELL"}, atr \in AtrValues \ {0} :
        sg' = [update_position(action,
                  [action |-> "BUY", num |-> RiskAmount * 1000, den |-> 2 * atr])
               EXCEPT !.called = FALSE, !.by = "direct"]
    /\ UNCHANGED <<variant, bt, mo, fm, ac, ph, cy, mn, minDistance, positions, workingOrders, ta, wh,
                   orderPosts, tpReqs, fx, mt, cl, au>>

\* ------------------------------------------------- TradingBot.execute_trade
\* TradingBot for one symbol before any trade: last_trade_time and
\* active_positions without the symbol, a broker without positions.  now is
\* time.time(); orders: the current_time of every order the broker accepted;
\* res: how the latest execute_trade call ended, at: its current_time;
\* before: last_trade_time, active_positions and strategy.positions as that
\* call found them.
BtInit ==
    [now |-> 0, ticks |-> 0, last |-> Absent, active |-> Absent,
     broker |-> <<>>, orders |-> <<>>, res |-> "", at |-> 0,
     before |-> [last |-> Absent, active |-> Absent, held |-> FALSE,
                 qty |-> NoSignal]]

\* The signals monitor_trades hands to execute_trade: what get_signal
\* returns, a BUY without a position, a SELL of the held quantity with one.
TradeSignals ==
    {NoSignal} \cup
    (IF sg.held
     THEN {[action |-> "SELL", num |-> sg.qty.num, den |-> sg.qty.den]}
     ELSE {[action |-> "BUY", num |-> RiskAmount * 1000, den |-> 2 * atr] :
              atr \in AtrValues \ {0}})

\* An interval test that never skips.
TooSoonNever(now, last) == FALSE

\* "time_since_last_trade < TRADE_INTERVAL"
TooSoon(now, last) == now - last < TradeInterval

\* An active_positions update that keeps the entry on a SELL.
ActivePositionsKept(active, signal) ==
    IF signal.action = "BUY" THEN Some(signal) ELSE active

\* "Update active positions": the entry of a BUY, no entry after a SELL.
ActivePositions(active, signal) ==
    IF signal.action = "BUY" THEN Some(signal) ELSE Absent

\* place_market_order(symbol, direction, quantity) accepted: the payload has
\* 'forceOpen': True, the broker opens a new position of that direction.
place_market_order(broker, signal) ==
    Append(broker, [direction |-> signal.action, num |-> signal.num,
                    den |-> signal.den])

\* time.sleep(TRADE_INTERVAL) between two passes of monitor_trades,
\* time.sleep(60) after an error, or a part of either.
bot3_clock ==
    /\ bt.ticks < MaxTicks
    /\ \E step \in {ErrorPause, TradeInterval - ErrorPause, TradeInterval} :
        bt' = [bt EXCEPT !.now = @ + step, !.ticks = @ + 1]
    /\ UNCHANGED <<variant, minDistance, positions, workingOrders, ta, wh,
                   orderPosts, tpReqs, fx, mt, cl, au, sg, mn, cy, ph, ac,
                   fm, mo>>

\* execute_trade(symbol, signal): nothing without a signal; skip within
\* TRADE_INTERVAL of last_trade_time; place the market order; on a result
\* update_position, last_trade_time = current_time and active_positions.
execute_trade ==
    /\ Len(bt.broker) < MaxOrders
    /\ \E signal \in TradeSignals, ok \in BOOLEAN :
        LET called == [bt EXCEPT !.at = bt.now, !.before =
                          [last |-> bt.last, active |-> bt.active,
                           held |-> sg.held, qty |-> sg.qty]]
        IN  IF signal.action = "None"
            THEN bt' = [called EXCEPT !.res = "none"] /\ sg' = sg
            ELSE IF Has(bt.last) /\ TooSoon(bt.now, Val(bt.last))
            THEN bt' = [called EXCEPT !.res = "skipped"] /\ sg' = sg
            ELSE IF ~ok
            THEN bt' = [called EXCEPT !.res = "failed"] /\ sg' = sg
            ELSE /\ bt' = [called EXCEPT
                             !.res = signal.action,
                             !.last = Some(bt.now),
                             !.active = ActivePositions(bt.active, signal),
                             !.broker = place_market_order(bt.broker, signal),
                             !.orders = Append(bt.orders, bt.now)]
                 /\ sg' = update_position(signal.action, signal)
    /\ UNCHANGED <<variant, minDistance, positions, workingOrders, ta, wh,
                   orderPosts, tpReqs, fx, mt, cl, au, mn, cy, ph, ac, fm, mo>>

\* ------------------------------------------------- the market-analysis pass
\* main()'s loop between two passes.  log holds, for each symbol the current
\* (or last) pass has dealt with, how that ended.
CyIdle == [pc |-> "sleep", i |-> 0, log |-> <<>>]

\* What analyze_market(symbol) meets: no market data (authentication failed,
\* status not 200, transport error), price rows it cannot read (for example
\* "highPrice": null), or data that gives a trend.
AnalyzeResults == {"no_data", "bad_rows", "BUY", "SELL"}

\* How trade_action(symbol, trend, latest_price, mode) ends; it returns to
\* main() in every case.  bot4's get_min_distance always answers a pair.
TradeResults ==
    {"auth_failed", "rejected", "transport_error", "verification_error", "ok"}
    \cup (IF variant = "bot1" THEN {"no_min_distance"} ELSE {})

\* "logging.info('Starting market analysis cycle...')": a pass begins.
main_pass_begin ==
    /\ cy.pc = "sleep"
    /\ cy' = [pc |-> "pass", i |-> 1, log |-> <<>>]
    /\ UNCHANGED <<variant, bt, mo, fm, ac, ph, minDistance, positions, workingOrders, ta, wh,
                   orderPosts, tpReqs, fx, mt, cl, au, sg, mn>>

\* One symbol of the pass.  bot1's analyze_market catches every exception and
\* answers HOLD; bot4's catches KeyError only, so rows it cannot read raise
\* out of it into the except of main(), which is outside the for loop: the
\* rest of the pass is skipped.
main_pass_symbol ==
    /\ cy.pc = "pass" /\ cy.i <= MaxSymbols
    /\ \E a \in AnalyzeResults :
        IF a = "no_data" \/ (a = "bad_rows" /\ variant = "bot1")
        THEN cy' = [cy EXCEPT !.i = cy.i + 1, !.log = Append(cy.log, "HOLD")]
        ELSE IF a = "bad_rows"
        THEN cy' = [cy EXCEPT !.pc = "sleep", !.log = Append(cy.log, "raised")]
        ELSE \E t \in TradeResults :
             cy' = [cy EXCEPT !.i = cy.i + 1, !.log = Append(cy.log, t)]
    /\ UNCHANGED <<variant, bt, mo, fm, ac, ph, minDistance, positions, workingOrders, ta, wh,
                   orderPosts, tpReqs, fx, mt, cl, au, sg, mn>>

\* The for loop is through: time.sleep(TRADE_INTERVAL).
main_pass_end ==
    /\ cy.pc = "pass" /\ cy.i > MaxSymbols
    /\ cy' = [cy EXCEPT !.pc = "sleep"]
    /\ UNCHANGED <<variant, bt, mo, fm, ac, ph, minDistance, positions, workingOrders, ta, wh,
                   orderPosts, tpReqs, fx, mt, cl, au, sg, mn>>

\* ---------------------------------------------------------------- api_cache
\* The keys of api_cache the model follows.
DistanceKeys == {"min_distance_BTCUSD", "min_distance_ETHUSD"}
CacheKeys == {"auth_tokens"} \cup DistanceKeys

\* A key that is not in api_cache; stored is the time.time() of the write.
NoEntry == [present |-> FALSE, stored |-> 0, expiry |-> 0]

NoCall ==
    [fn |-> "", key |-> "", at |-> 0, had |-> FALSE, age |-> 0,
     contacted |-> FALSE, result |-> "", before |-> NoEntry, done |-> 0]

\* The threads of bot1 that call authenticate().
CacheCallers == {"main", "monitor_trades"}

\* What POST /session is answered: 200 with both token headers, 200 without
\* the CST or without the X-SECURITY-TOKEN header, another status, or an
\* exception of the request.
AuthAnswers == {"both", "no_cst", "no_x_security", "status", "exception"}

\* "response.status_code == 200": the answer is stored in api_cache.
Stored(answer) == answer \in {"both", "no_cst", "no_x_security"}

\* response.headers.get("CST"), response.headers.get("X-SECURITY-TOKEN"):
\* TRUE for a token, FALSE for None.
NoTokens == [cst |-> FALSE, x_security |-> FALSE]
TokensOf(answer) ==
    [cst |-> answer \in {"both", "no_x_security"},
     x_security |-> answer \in {"both", "no_cst"}]

\* "if not cst or not x_security" of the callers of authenticate().
Usable(tokens) == tokens.cst /\ tokens.x_security

\* now: time.time() in seconds; moves: how often it has moved; thr: the
\* authenticate() call of each thread between its cache check and its POST;
\* tokens: the "cst" and "x_security" of api_cache["auth_tokens"].
AcInit ==
    [now |-> 0, moves |-> 0, slot |-> [k \in CacheKeys |-> NoEntry],
     tokens |-> NoTokens,
     thr |-> [c \in CacheCallers |-> NoCall], last |-> NoCall]

\* "cache_key in api_cache and time.time() <= api_cache[cache_key]['expiry']"
CacheHitInclusive(entry, now) == entry.present /\ now <= entry.expiry

\* "cache_key in api_cache and time.time() < api_cache[cache_key]['expiry']"
CacheHit(entry, now) == entry.present /\ now < entry.expiry

\* api_cache[cache_key] = {..., "expiry": time.time() + ttl}
CacheEntry(now, ttl) == [present |-> TRUE, stored |-> now, expiry |-> now + ttl]

\* A get_min_distance that caches a default after a failed fetch.
DistanceEntryAlways(outcome, entry, now) == CacheEntry(now, DistanceTtl)

\* What get_min_distance leaves under its key: a new entry after a status
\* 200, else what was there.
DistanceEntry(outcome, entry, now) ==
    IF outcome = "ok" THEN CacheEntry(now, DistanceTtl) ELSE entry

\* What a call through the cache saw when it looked the key up; done: the
\* time at which the call returned.
Lookup(fn, key) ==
    [fn |-> fn, key |-> key, at |-> ac.now, had |-> ac.slot[key].present,
     age |-> IF ac.slot[key].present THEN ac.now - ac.slot[key].stored ELSE 0,
     contacted |-> FALSE, result |-> "", before |-> ac.slot[key],
     done |-> ac.now]

\* Time passes.
clock(steps) ==
    /\ ac.moves < MaxAdvances
    /\ \E d \in steps :
        ac' = [ac EXCEPT !.now = ac.now + d, !.moves = ac.moves + 1]
    /\ UNCHANGED <<variant, bt, mo, fm, minDistance, positions, workingOrders, ta, wh,
                   orderPosts, tpReqs, fx, mt, cl, au, sg, mn, cy, ph>>

clock_auth == ac.moves < MaxAdvances /\ clock({1, AuthTtl - 1})
clock_distance == ac.moves < MaxAdvances /\ clock({1, DistanceTtl - 1})

\* authenticate() of bot1 up to its POST: the cached tokens on a hit, else
\* the jitter sleep.
authenticate_lookup(c) ==
    /\ ac.thr[c].fn = ""
    /\ LET call == Lookup("authenticate", "auth_tokens")
       IN  IF CacheHit(ac.slot["auth_tokens"], ac.now)
           THEN ac' = [ac EXCEPT !.last = [call EXCEPT !.result = "cached"]]
           ELSE ac' = [ac EXCEPT !.thr[c] = call]
    /\ UNCHANGED <<variant, bt, mo, fm, minDistance, positions, workingOrders, ta, wh,
                   orderPosts, tpReqs, fx, mt, cl, au, sg, mn, cy, ph>>

\* The POST /session of authenticate() and what follows: on 200 the two
\* headers, as they are, are stored with expiry time.time() + 600 and
\* returned; else (None, None).
authenticate_refresh(c) ==
    /\ ac.thr[c].fn # ""
    /\ \E answer \in AuthAnswers :
        ac' = [ac EXCEPT
                 !.thr[c] = NoCall,
                 !.slot["auth_tokens"] =
                     IF Stored(answer) THEN CacheEntry(ac.now, AuthTtl) ELSE @,
                 !.tokens = IF Stored(answer) THEN TokensOf(answer) ELSE @,
                 !.last = [ac.thr[c] EXCEPT
                             !.contacted = TRUE, !.done = ac.now,
                             !.result = IF answer = "both" THEN "fresh"
                                        ELSE IF Stored(answer) THEN "partial"
                                        ELSE "None"]]
    /\ UNCHANGED <<variant, bt, mo, fm, minDistance, positions, workingOrders, ta, wh,
                   orderPosts, tpReqs, fx, mt, cl, au, sg, mn, cy, ph>>

\* get_min_distance(symbol) of bot1: the cached distance on a hit; else
\* authenticate() (from its cache, or a POST that may store new tokens) and
\* GET /markets/{symbol}: a 200 stores the distance for 3600 seconds, no
\* tokens, another status or an exception return None.
get_min_distance(key) ==
    /\ LET call == Lookup("get_min_distance", key)
       IN  IF CacheHit(ac.slot[key], ac.now)
           THEN ac' = [ac EXCEPT !.last = [call EXCEPT !.result = "cached"]]
           ELSE \E answer \in AuthAnswers,
                   outcome \in {"ok", "status", "exception"} :
                LET hit == CacheHit(ac.slot["auth_tokens"], ac.now)
                    kept == hit \/ ~Stored(answer)
                    entry == IF kept THEN ac.slot["auth_tokens"]
                             ELSE CacheEntry(ac.now, AuthTtl)
                    tokens == IF kept THEN ac.tokens ELSE TokensOf(answer)
                IN  IF ~(hit \/ Stored(answer)) \/ ~Usable(tokens)
                    THEN ac' = [ac EXCEPT
                                  !.slot["auth_tokens"] = entry,
                                  !.tokens = tokens,
                                  !.last = [call EXCEPT !.contacted = TRUE,
                                                        !.result = "None"]]
                    ELSE ac' = [ac EXCEPT
                                  !.tokens = tokens,
                                  !.slot = [@ EXCEPT
                                      !["auth_tokens"] = entry,
                                      ![key] = DistanceEntry(outcome, @, ac.now)],
                                  !.last = [call EXCEPT
                                      !.contacted = TRUE,
                                      !.result = IF outcome = "ok"
                                                 THEN "fresh" ELSE "None"]]
    /\ UNCHANGED <<variant, bt, mo, fm, minDistance, positions, workingOrders, ta, wh,
                   orderPosts, tpReqs, fx, mt, cl, au, sg, mn, cy, ph>>

\* -------------------------------------------------------- fetch_all_markets
\* No fetch_all_markets call is running.  tokens: session_tokens is a dict
\* (not None); depth: the nested calls; log: what each GET was answered;
\* file: all_markets.json has been written; got: what the caller of the
\* previous call got.
FmIdle == [pc |-> "idle", tokens |-> FALSE, depth |-> 0, log |-> <<>>,
           result |-> "", file |-> FALSE, got |-> ""]

\* What GET /marketnavigation ends with: 200, 401 with errorCode
\* error.invalid.session.token, 401 with a body that is not JSON, another
\* status, or an exception of the transport.
FetchAnswers ==
    {"200", "401_invalid_session", "401_not_json", "other_status", "exception"}

\* fetch_all_markets(session_tokens) is called with the tokens create_session
\* returned, as __main__ does.
fetch_all_markets_call ==
    /\ fm.pc = "idle"
    /\ fm' = [fm EXCEPT !.pc = "request", !.tokens = TRUE]
    /\ UNCHANGED <<variant, bt, mo, minDistance, positions, workingOrders, ta, wh,
                   orderPosts, tpReqs, fx, mt, cl, au, sg, mn, cy, ph, ac>>

\* One frame of fetch_all_markets: the headers read session_tokens[...]
\* (TypeError on None), then the GET.  200 returns the data, the invalid
\* session answer calls refresh_session_tokens() (None when create_session
\* fails, an exception when its POST raises) and then fetch_all_markets
\* again, one frame deeper, until the interpreter's recursion limit.
fetch_all_markets_request ==
    /\ fm.pc = "request"
    /\ IF ~fm.tokens
       THEN fm' = [fm EXCEPT !.pc = "done", !.result = "TypeError"]
       ELSE \E answer \in FetchAnswers :
            LET logged == [fm EXCEPT !.log = Append(fm.log, answer)]
            IN  IF answer = "200"
                THEN fm' = [logged EXCEPT !.pc = "done", !.result = "data",
                                          !.file = TRUE]
                ELSE IF answer = "other_status"
                THEN fm' = [logged EXCEPT !.pc = "done", !.result = "None"]
                ELSE IF answer = "exception"
                THEN fm' = [logged EXCEPT !.pc = "done",
                                          !.result = "RequestException"]
                ELSE IF answer = "401_not_json"
                THEN fm' = [logged EXCEPT !.pc = "done",
                                          !.result = "JSONDecodeError"]
                ELSE IF fm.depth = RecursionLimit
                THEN fm' = [logged EXCEPT !.pc = "done",
                                          !.result = "RecursionError"]
                ELSE \E refreshed \in {"tokens", "None", "exception"} :
                     fm' = IF refreshed = "exception"
                           THEN [logged EXCEPT !.pc = "done",
                                               !.result = "RequestException"]
                           ELSE [logged EXCEPT !.depth = fm.depth + 1,
                                               !.tokens = (refreshed = "tokens")]
    /\ UNCHANGED <<variant, bt, mo, minDistance, positions, workingOrders, ta, wh,
                   orderPosts, tpReqs, fx, mt, cl, au, sg, mn, cy, ph, ac>>

\* The outermost frame has returned or raised.
fetch_all_markets_return ==
    /\ fm.pc = "done"
    /\ fm' = [FmIdle EXCEPT !.file = fm.file, !.got = fm.result]
    /\ UNCHANGED <<variant, bt, mo, minDistance, positions, workingOrders, ta, wh,
                   orderPosts, tpReqs, fx, mt, cl, au, sg, mn, cy, ph, ac>>

\* ---------------------------------------------------------- math_operations
\* No multiply call has been made.
MoNone == [called |-> FALSE, a |-> 0, b |-> 0, result |-> 0]

Operands == (0 - MaxOperand)..MaxOperand

\* A multiply that loses the sign of its operands.
multiply_magnitudes(a, b) == Abs(a) * Abs(b)

\* multiply(a, b)
multiply(a, b) == a * b

\* test_multiply and any other caller: multiply(a, b) is evaluated.
multiply_call ==
    /\ \E a \in Operands, b \in Operands :
        mo' = [called |-> TRUE, a |-> a, b |-> b, result |-> multiply(a, b)]
    /\ UNCHANGED <<variant, bt, minDistance, positions, workingOrders, ta, wh,
                   orderPosts, tpReqs, fx, mt, cl, au, sg, mn, cy, ph, ac, fm>>

\* --------------------------------------------------------------- startup
\* The main thread before "if __name__ == '__main__'" runs.  sweeps counts
\* the returns of fix_missing_take_profits to main(); monitor: the
\* monitor_trades thread has been started.
MnStart == [pc |-> "start", sweeps |-> 0, monitor |-> FALSE]

\* A __main__ that starts the monitor thread and the loop without the sweep.
program_start_no_sweep ==
    /\ mn.pc = "start"
    /\ mn' = [mn EXCEPT !.pc = IF variant = "bot1" THEN "thread" ELSE "serve"]
    /\ UNCHANGED <<variant, bt, mo, fm, ac, ph, cy, minDistance, positions, workingOrders, ta, wh,
                   orderPosts, tpReqs, fx, mt, cl, au, sg>>

\* __main__: bot1 starts the webhook thread and calls main(); bot4 serves the
\* webhook application and never calls main().
program_start ==
    /\ mn.pc = "start"
    /\ mn' = [mn EXCEPT !.pc = IF variant = "bot1" THEN "fix" ELSE "serve"]
    /\ UNCHANGED <<variant, bt, mo, fm, ac, ph, cy, minDistance, positions, workingOrders, ta, wh,
                   orderPosts, tpReqs, fx, mt, cl, au, sg>>

\* main() calls fix_missing_take_profits().
main_fix_missing_take_profits ==
    /\ mn.pc = "fix"
    /\ fix_missing_take_profits_begin

\* fix_missing_take_profits() returns to main().
main_fix_returned ==
    /\ mn.pc = "fix"
    /\ fx.pc = "done"
    /\ fx' = FxIdle
    /\ tpReqs' = <<>>
    /\ mn' = [mn EXCEPT !.pc = "thread", !.sweeps = mn.sweeps + 1]
    /\ UNCHANGED <<variant, bt, mo, fm, ac, ph, cy, minDistance, positions, workingOrders, ta, wh,
                   orderPosts, mt, cl, au, sg>>

\* threading.Thread(target=monitor_trades, daemon=True).start()
main_start_monitor ==
    /\ mn.pc = "thread"
    /\ mn' = [mn EXCEPT !.pc = "loop", !.monitor = TRUE]
    /\ UNCHANGED <<variant, bt, mo, fm, ac, ph, cy, minDistance, positions, workingOrders, ta, wh,
                   orderPosts, tpReqs, fx, mt, cl, au, sg>>

\* One symbol of the "while True" loop of main() that leads to trade_action.
main_loop_trade ==
    /\ mn.pc = "loop"
    /\ main_cycle_trade

\* serve(app, ...) of bot4 handles a webhook request.
serve_webhook ==
    /\ mn.pc = "serve"
    /\ webhook

Init ==
    /\ variant \in Variants
    /\ minDistance \in MinDistances
    /\ fx = FxIdle
    /\ positions = [d \in Deals |-> NoPosition]
    /\ workingOrders = {}
    /\ ta = TaIdle
    /\ wh = WhNone
    /\ orderPosts = 0
    /\ tpReqs = <<>>
    /\ cl = ClIdle
    /\ au = AuIdle
    /\ sg = SgInit
    /\ mn = MnStart
    /\ cy = CyIdle
    /\ ph = PhInit
    /\ ac = AcInit
    /\ fm = FmIdle
    /\ mo = MoNone
    /\ bt = BtInit
    /\ mt = MtIdle(FALSE)

\* The steps of a running trade_action call, whoever started it.
TradeSteps ==
    \/ trade_action_begin
    \/ trade_action_post
    \/ verify_position_confirm
    \/ verify_position_details
    \/ set_take_profit_after_open
    \/ verify_position_fallback
    \/ verify_position_and_orders
    \/ create_take_profit_order
    \/ verify_position_and_orders_set_tp
    \/ verify_tp
    \/ verify_tp_update
    \/ trade_action_return

\* The trading cycle of main() against the broker.
Next ==
    \/ main_cycle_trade
    \/ TradeSteps
    \/ fix_missing_take_profits_begin
    \/ fix_missing_take_profits_step
    \/ fix_missing_take_profits_return
    \/ broker_close

Spec == Init /\ [][Next]_vars

\* The webhook entry point against the broker.
NextWebhook ==
    \/ webhook
    \/ webhook_answered
    \/ TradeSteps
    \/ broker_close

SpecWebhook == Init /\ [][NextWebhook]_vars

\* bot1 from __main__ on: the webhook thread serves requests while main()
\* runs its startup sweep.
InitStartup ==
    /\ variant = "bot1"
    /\ minDistance = 300
    /\ fx = FxIdle
    /\ positions = [d \in Deals |-> NoPosition]
    /\ workingOrders = {}
    /\ ta = TaIdle
    /\ wh = WhNone
    /\ orderPosts = 0
    /\ tpReqs = <<>>
    /\ cl = ClIdle
    /\ au = AuIdle
    /\ sg = SgInit
    /\ mn = MnStart
    /\ cy = CyIdle
    /\ ph = PhInit
    /\ ac = AcInit
    /\ fm = FmIdle
    /\ mo = MoNone
    /\ bt = BtInit
    /\ mt = MtIdle(FALSE)

NextStartup ==
    \/ webhook
    \/ webhook_answered
    \/ trade_action_begin
    \/ trade_action_post
    \/ verify_position_confirm
    \/ verify_position_details
    \/ set_take_profit_after_open
    \/ verify_position_fallback
    \/ verify_position_and_orders
    \/ create_take_profit_order
    \/ verify_tp
    \/ verify_tp_update
    \/ trade_action_return
    \/ fix_missing_take_profits_at_startup
    \/ fix_missing_take_profits_step

SpecStartup == InitStartup /\ [][NextStartup]_vars

\* Positions the monitor thread can find at the broker: none, or a BUY or a
\* SELL position with or without a take-profit.
MonitorPositions ==
    {NoPosition} \cup
    { [open |-> TRUE, epic |-> "BTCUSD", direction |-> dir, level |-> 100000,
       tp |-> tp, sl |-> Absent] :
      dir \in {"BUY", "SELL"}, tp \in {Absent, Some(99500), Some(100500)} }

InitMonitor ==
    /\ variant \in Variants
    /\ minDistance = 300
    /\ fx = FxIdle
    /\ positions \in [Deals -> MonitorPositions]
    /\ workingOrders = {}
    /\ ta = TaIdle
    /\ wh = WhNone
    /\ orderPosts = 0
    /\ tpReqs = <<>>
    /\ cl = ClIdle
    /\ au = AuIdle
    /\ sg = SgInit
    /\ mn = MnStart
    /\ cy = CyIdle
    /\ ph = PhInit
    /\ ac = AcInit
    /\ fm = FmIdle
    /\ mo = MoNone
    /\ bt = BtInit
    /\ \E brokerOk \in BOOLEAN : mt = MtIdle(brokerOk)

monitor_trades ==
    \/ monitor_trades_list
    \/ monitor_trades_step_bot1
    \/ monitor_trades_step_bot4
    \/ monitor_trades_sleep

NextMonitor == monitor_trades \/ broker_close

SpecMonitor == InitMonitor /\ [][NextMonitor]_vars

\* The thread is scheduled again and again: a step of it that stays possible
\* is taken.
SpecMonitorLive == SpecMonitor /\ WF_vars(monitor_trades)

\* The client on its own; the bots do not use it.
InitClient ==
    /\ variant = "bot1"
    /\ minDistance = 300
    /\ fx = FxIdle
    /\ positions = [d \in Deals |-> NoPosition]
    /\ workingOrders = {}
    /\ ta = TaIdle
    /\ wh = WhNone
    /\ orderPosts = 0
    /\ tpReqs = <<>>
    /\ mt = MtIdle(FALSE)
    /\ cl = ClIdle
    /\ au = AuIdle
    /\ sg = SgInit
    /\ mn = MnStart
    /\ cy = CyIdle
    /\ ph = PhInit
    /\ ac = AcInit
    /\ fm = FmIdle
    /\ mo = MoNone
    /\ bt = BtInit

NextClient ==
    \/ make_request_call
    \/ make_request_send
    \/ make_request_reauthenticate
    \/ make_request_return

SpecClient == InitClient /\ [][NextClient]_vars

\* The callers of authenticate() of bot1 on their own.
InitAuth ==
    /\ variant = "bot1"
    /\ minDistance = 300
    /\ fx = FxIdle
    /\ positions = [d \in Deals |-> NoPosition]
    /\ workingOrders = {}
    /\ ta = TaIdle
    /\ wh = WhNone
    /\ orderPosts = 0
    /\ tpReqs = <<>>
    /\ mt = MtIdle(FALSE)
    /\ cl = ClIdle
    /\ au = AuIdle
    /\ sg = SgInit
    /\ mn = MnStart
    /\ cy = CyIdle
    /\ ph = PhInit
    /\ ac = AcInit
    /\ fm = FmIdle
    /\ mo = MoNone
    /\ bt = BtInit

NextAuth ==
    \/ \E c \in Callers : authenticate_check(c)
    \/ \E c \in Callers : authenticate_post(c)
    \/ \E c \in Callers : authenticate_store(c)
    \/ auth_cache_expires

SpecAuth == InitAuth /\ [][NextAuth]_vars

\* The main thread from the start of the program, against a broker that may
\* already hold a position.
InitMain ==
    /\ variant \in Variants
    /\ minDistance = 300
    /\ fx = FxIdle
    /\ positions \in [Deals -> MonitorPositions]
    /\ Len(Listing) <= MaxOpen
    /\ workingOrders = {}
    /\ ta = TaIdle
    /\ wh = WhNone
    /\ orderPosts = 0
    /\ tpReqs = <<>>
    /\ mt = MtIdle(FALSE)
    /\ cl = ClIdle
    /\ au = AuIdle
    /\ sg = SgInit
    /\ mn = MnStart
    /\ cy = CyIdle
    /\ ph = PhInit
    /\ ac = AcInit
    /\ fm = FmIdle
    /\ mo = MoNone
    /\ bt = BtInit

NextMain ==
    \/ program_start
    \/ main_fix_missing_take_profits
    \/ fix_missing_take_profits_step
    \/ main_fix_returned
    \/ main_start_monitor
    \/ main_loop_trade
    \/ serve_webhook
    \/ webhook_answered
    \/ TradeSteps
    \/ broker_close

SpecMain == InitMain /\ [][NextMain]_vars

\* bot3: the strategy and the monitoring loop for one symbol.
InitStrategy ==
    /\ variant = "bot1"
    /\ minDistance = 300
    /\ fx = FxIdle
    /\ positions = [d \in Deals |-> NoPosition]
    /\ workingOrders = {}
    /\ ta = TaIdle
    /\ wh = WhNone
    /\ orderPosts = 0
    /\ tpReqs = <<>>
    /\ mt = MtIdle(FALSE)
    /\ cl = ClIdle
    /\ au = AuIdle
    /\ sg = SgInit
    /\ mn = MnStart
    /\ cy = CyIdle
    /\ ph = PhInit
    /\ ac = AcInit
    /\ fm = FmIdle
    /\ mo = MoNone
    /\ bt = BtInit

NextStrategy ==
    \/ bot3_monitor_symbol
    \/ strategy_get_signal
    \/ strategy_update_position

SpecStrategy == InitStrategy /\ [][NextStrategy]_vars

\* The loop of main() over SYMBOLS on its own.
InitCycle ==
    /\ variant \in Variants
    /\ minDistance = 300
    /\ fx = FxIdle
    /\ positions = [d \in Deals |-> NoPosition]
    /\ workingOrders = {}
    /\ ta = TaIdle
    /\ wh = WhNone
    /\ orderPosts = 0
    /\ tpReqs = <<>>
    /\ mt = MtIdle(FALSE)
    /\ cl = ClIdle
    /\ au = AuIdle
    /\ sg = SgInit
    /\ mn = MnStart
    /\ cy = CyIdle
    /\ ph = PhInit
    /\ ac = AcInit
    /\ fm = FmIdle
    /\ mo = MoNone
    /\ bt = BtInit

NextCycle ==
    \/ main_pass_begin
    \/ main_pass_symbol
    \/ main_pass_end

SpecCycle == InitCycle /\ [][NextCycle]_vars

\* The price history of one bot3 symbol on its own.
InitHistory ==
    /\ variant = "bot1"
    /\ minDistance = 300
    /\ fx = FxIdle
    /\ positions = [d \in Deals |-> NoPosition]
    /\ workingOrders = {}
    /\ ta = TaIdle
    /\ wh = WhNone
    /\ orderPosts = 0
    /\ tpReqs = <<>>
    /\ mt = MtIdle(FALSE)
    /\ cl = ClIdle
    /\ au = AuIdle
    /\ sg = SgInit
    /\ mn = MnStart
    /\ cy = CyIdle
    /\ ph = PhInit
    /\ ac = AcInit
    /\ fm = FmIdle
    /\ mo = MoNone
    /\ bt = BtInit

NextHistory == update_price_history_call

SpecHistory == InitHistory /\ [][NextHistory]_vars

\* authenticate() of bot1 through api_cache, under a clock.
InitCache ==
    /\ variant = "bot1"
    /\ minDistance = 300
    /\ fx = FxIdle
    /\ positions = [d \in Deals |-> NoPosition]
    /\ workingOrders = {}
    /\ ta = TaIdle
    /\ wh = WhNone
    /\ orderPosts = 0
    /\ tpReqs = <<>>
    /\ mt = MtIdle(FALSE)
    /\ cl = ClIdle
    /\ au = AuIdle
    /\ sg = SgInit
    /\ mn = MnStart
    /\ cy = CyIdle
    /\ ph = PhInit
    /\ ac = AcInit
    /\ fm = FmIdle
    /\ mo = MoNone
    /\ bt = BtInit

NextAuthCache ==
    \/ clock_auth
    \/ \E c \in CacheCallers : authenticate_lookup(c)
    \/ \E c \in CacheCallers : authenticate_refresh(c)

SpecAuthCache == InitCache /\ [][NextAuthCache]_vars

\* get_min_distance of bot1 through api_cache, under a clock.
NextDistanceCache ==
    \/ clock_distance
    \/ \E key \in DistanceKeys : get_min_distance(key)

SpecDistanceCache == InitCache /\ [][NextDistanceCache]_vars

\* fetch_marketsadd.py on its own.
NextFetch ==
    \/ fetch_all_markets_call
    \/ fetch_all_markets_request
    \/ fetch_all_markets_return

SpecFetch == InitCache /\ [][NextFetch]_vars

\* math_operations on its own.
NextMath == multiply_call

SpecMath == InitCache /\ [][NextMath]_vars

\* bot3's TradingBot trading one symbol.
NextBot3 == bot3_clock \/ execute_trade

SpecBot3 == InitCache /\ [][NextBot3]_vars

\* ------------------------------------------------------------------ claims
\* The order request of the running trade_action has been built and sent.
OrderSent == ta.pc # "idle" /\ orderPosts > 0

\* C1's reference rule for the take-profit: 0.5% from the price by direction,
\* rounded to 2 decimals; replaced by price + min_distance (BUY) or
\* price - min_distance (SELL) when closer than min_distance.
ReferenceTP(action, price, md) ==
    { IF Abs(raw - price) < md
      THEN price + (IF action = "BUY" THEN md ELSE -md)
      ELSE raw
      : raw \in Round2(price * (IF action = "BUY" THEN 1005 ELSE 995), 1000) }

\* C1's reference rule for the stop-loss, the mirror image.
ReferenceSL(action, price, md) ==
    { IF Abs(raw - price) < md
      THEN price - (IF action = "BUY" THEN md ELSE -md)
      ELSE raw
      : raw \in Round2(price * (IF action = "BUY" THEN 995 ELSE 1005), 1000) }

\* C1: for action BUY or SELL, price > 0 and a known min_distance, the TP and
\* SL of the order payload equal the reference rule (0.5% offsets rounded to
\* 2 decimals, replaced by price +/- min_distance when closer than that).
C1_PayloadEqualsReferenceRule ==
    (OrderSent /\ ta.action \in {"BUY", "SELL"} /\ ta.price > 0)
        => /\ ta.tp \in ReferenceTP(ta.action, ta.price, ta.md)
           /\ ta.sl \in ReferenceSL(ta.action, ta.price, ta.md)

\* C2: every order request carries a take-profit and a stop-loss that are both
\* at a distance >= min_distance from the reference price.
C2_PayloadRespectsMinDistance ==
    (OrderSent /\ ta.action \in {"BUY", "SELL"} /\ ta.price > 0)
        => /\ Abs(ta.tp - ta.price) >= ta.md
           /\ Abs(ta.sl - ta.price) >= ta.md

\* C3: one invocation of trade_action sends at most one POST /positions,
\* whatever status codes the broker answers with.
C3_AtMostOneOrderPost == orderPosts <= 1

\* The take-profit-setting requests of the log that name deal d.
TpReqsFor(d) == SelectSeq(tpReqs, LAMBDA r : r.deal = d)

\* C4: when the order was accepted with a dealReference, the confirmation
\* lists the opened deal as OPENED with level and direction, and the position
\* detail had no take-profit, the finished post-open verification has sent
\* exactly one take-profit-setting request for the deal, at the
\* 0.5%-with-minimum-distance level.
C4_ExactlyOneTakeProfitRequest ==
    (/\ ta.pc = "done" /\ ta.outcome = "ok" /\ ta.ref
     /\ ta.conf.hasAffected /\ ta.conf.affectedDeals # <<>> /\ ta.conf.fields
     /\ ta.missingTp)
        => LET reqs == TpReqsFor(Val(ta.opened))
           IN  /\ Len(reqs) = 1
               /\ reqs[1].level \in RepairTP(ta.action, ta.price, minDistance)

\* C5: the take-profit repair (fix_missing_take_profits and the post-open
\* verification) is idempotent: no step sends a take-profit write (a PUT of the
\* level or a take-profit working order) for a position that has a take-profit
\* at the broker, and such a position keeps its take-profit while it is open.
C5_RepairIsIdempotent ==
    [][\A d \in Deals :
          (positions[d].open /\ Has(positions[d].tp)) =>
              /\ positions'[d].open => positions'[d].tp = positions[d].tp
              /\ (Len(tpReqs') > Len(tpReqs)) =>
                    tpReqs'[Len(tpReqs')].deal # d]_vars

\* C6: no take-profit write the ratchet step of monitor_trades issues lowers
\* the existing take-profit of a BUY position or raises the existing
\* take-profit of a SELL position.
C6_RatchetIsMonotone ==
    \A k \in DOMAIN mt.writes :
        LET w == mt.writes[k]
        IN  /\ w.direction = "BUY" => w.level >= w.current
            /\ w.direction = "SELL" => w.level <= w.current

\* C7: a pass of monitor_trades over the listed positions has processed every
\* one of them when it is over, whatever failed on the way.
C7_PassVisitsEveryPosition ==
    (mt.pc \in {"sleep", "dead"}) => mt.visited = DOMAIN mt.list

\* C8: a position that is open without a take-profit, at a broker that answers
\* every request with success, eventually has a take-profit or is closed, by
\* the passes of monitor_trades alone.
C8_MissingTakeProfitEventuallySet ==
    \A d \in Deals :
        (mt.brokerOk /\ positions[d].open /\ ~Has(positions[d].tp))
            ~> (~positions[d].open \/ Has(positions[d].tp))

\* C9: the webhook starts trade_action only for a request with a non-empty
\* symbol, a non-empty action and a price that is present, numeric and
\* strictly positive; any other request is answered with an error status and
\* starts no trade.
C9_WebhookStartsOnlyValidTrades ==
    (wh.status # 0) =>
        \/ /\ ~Falsy(wh.symbol) /\ ~Falsy(wh.action)
           /\ wh.kind = "number" /\ wh.num > 0
        \/ wh.status >= 400 /\ ~wh.started

\* C10: one call of _make_request sends the request at most twice and
\* re-authenticates at most once, whatever the broker answers.
C10_OneReauthenticationOneReplay == cl.sends <= 2 /\ cl.auths <= 1

\* C11: the refresh of the cached session tokens is atomic: for one expiry of
\* the cache at most one caller sends an authentication request, and the cache
\* never goes back from a token to one the broker issued earlier.
C11_AuthRefreshIsAtomic ==
    /\ [](\A e \in 0..MaxExpiries : au.sends[e] <= 1)
    /\ [][au'.token >= au.token]_vars

RECURSIVE PriceSum(_, _, _)
PriceSum(h, from, to) ==
    IF from > to THEN 0 ELSE h[from] + PriceSum(h, from + 1, to)

\* The short average is above the long one at the last price of h and was at
\* or below it one price earlier.
CrossoverAtEnd(h) ==
    LET n == Len(h)
    IN  /\ n >= 21
        /\ 2 * PriceSum(h, n - 9, n) > PriceSum(h, n - 19, n)
        /\ 2 * PriceSum(h, n - 10, n - 1) <= PriceSum(h, n - 20, n - 1)

\* C13: get_signal returns BUY only on a tick where the symbol has no tracked
\* position, the short average has just crossed above the long one and
\* RSI < 70; and on such a tick (with a positive ATR) it does return BUY, so
\* the first BUY of a series comes exactly at the crossover.
C13_BuyExactlyAtCrossover ==
    sg.called =>
        /\ sg.last.action = "BUY" =>
              ~sg.had /\ CrossoverAtEnd(sg.hist) /\ sg.rsi < 70
        /\ (~sg.had /\ CrossoverAtEnd(sg.hist) /\ sg.rsi < 70 /\ sg.atr > 0) =>
              sg.last.action = "BUY"

\* C13's case: the monitoring loop got a BUY from the strategy.
C13_Witness ==
    sg.called /\ sg.by = "monitor_trades" /\ sg.last.action = "BUY"

C15_IntentsAlternate ==
    sg.called =>
        /\ sg.last.action = "BUY" => ~sg.had
        /\ sg.last.action = "SELL" => sg.had
        /\ sg.last.action # "None" =>
              /\ sg.last.action # sg.prev
              /\ sg.prev = "None" => sg.last.action = "BUY"

\* C15 amended: get_signal never returns BUY for a symbol in the position map
\* nor SELL for one that is not in it.
C15_NoPyramiding ==
    sg.called =>
        /\ sg.last.action = "BUY" => ~sg.had
        /\ sg.last.action = "SELL" => sg.had

\* C15's case: a SELL was returned for a tracked symbol after a BUY.
C15_Witness ==
    sg.called /\ sg.last.action = "SELL" /\ sg.had /\ sg.prev = "BUY"

\* C16: the sweep fix_missing_take_profits has returned to main() exactly
\* once, and is not running, whenever the monitor_trades thread has been
\* started and whenever a trade_action of the market-analysis loop is under
\* way; it never returns a second time.
C16_SweepBeforeThreadAndLoop ==
    /\ mn.sweeps <= 1
    /\ (mn.monitor \/ (ta.pc # "idle" /\ ta.src = "main")) =>
          mn.sweeps = 1 /\ fx.pc = "idle"

\* C16's case: the loop has sent an order after a sweep that wrote a
\* take-profit, the monitor thread being started.
C16_Witness ==
    /\ mn.monitor
    /\ ta.src = "main" /\ orderPosts > 0
    /\ mn.sweeps = 1

\* The positions of trade_action inside verify_position_and_orders.
VerificationPcs ==
    {"verify_position", "vp_details", "vp_settp", "vp_fallback", "vpo",
     "vpo_create", "vpo_settp"}

\* C17: order execution does not block its caller on verification: the
\* trade_action call of the trading cycle is never itself inside the post-open
\* verification, which starts with the settle delay.
C17_CallerNotBlockedOnVerification ==
    ~(ta.src = "main" /\ ta.pc \in VerificationPcs)

\* The ids of the affected deals of a confirmation whose status is not OPENED.
NotOpenedIds(conf) ==
    {conf.affectedDeals[i].dealId :
        i \in {j \in DOMAIN conf.affectedDeals :
                  conf.affectedDeals[j].status # "OPENED"}}

\* The take-profit writes of the post-open verification that name a deal id.
VerificationWriters ==
    {"set_take_profit_after_open", "create_take_profit_order",
     "set_take_profit_by_deal_id"}

\* C18: the deal id that post-open verification checks and writes to is the
\* one of the first affected deal with status OPENED, else the confirmation's
\* own dealId; never the id of an affected deal with another status.
C18_VerificationActsOnOpenedDeal ==
    (ta.pc \in VerificationPcs \cup {"verify_tp"} /\ ta.conf # NoConfirm) =>
        /\ Has(ta.vdeal) =>
              /\ Val(ta.vdeal) \notin NotOpenedIds(ta.conf)
              /\ ta.vdeal = ConfirmDealId(ta.conf)
        /\ \A i \in DOMAIN tpReqs :
              tpReqs[i].by \in VerificationWriters =>
                  /\ tpReqs[i].deal \notin NotOpenedIds(ta.conf)
                  /\ Some(tpReqs[i].deal) = ConfirmDealId(ta.conf)

\* C19: post-open verification never raises, whatever the broker answers:
\* every step of it leads to its next step or to verify_tp, never out of
\* trade_action.
C19_VerificationNeverRaises ==
    [][ta.pc \in VerificationPcs =>
          ta'.pc \in VerificationPcs \cup {"verify_tp"}]_vars

\* C20: no step of the post-open verification changes the stop-loss of a
\* position at the broker.
C20_VerificationLeavesStopLoss ==
    [][(ta.pc \in VerificationPcs /\ ta' # ta) =>
          \A d \in Deals : positions'[d].sl = positions[d].sl]_vars

\* C20's case: verification has ended for an opened position without a
\* stop-loss, after writing a take-profit.
C20_Witness ==
    /\ ta.pc = "verify_tp" /\ ta.ref /\ Has(ta.opened)
    /\ positions[Val(ta.opened)].open
    /\ ~Has(positions[Val(ta.opened)].sl)
    /\ tpReqs # <<>>

\* C21: a failure for one symbol does not stop the pass: a pass that has
\* ended has dealt with every symbol of SYMBOLS.
C21_PassReachesEverySymbol ==
    (cy.pc = "sleep" /\ cy.i > 0) => Len(cy.log) = MaxSymbols

\* C22: the reconciliation task runs indefinitely: no pass of monitor_trades,
\* whatever the broker answers, ends the thread.
C22_MonitorThreadStaysAlive == mt.pc # "dead"

\* The last n entries of a sequence.
LastN(seq, n) ==
    IF Len(seq) <= n THEN seq ELSE SubSeq(seq, Len(seq) - n + 1, Len(seq))

\* C23: after any sequence of update_price_history calls the history holds
\* at most 100 entries and is the last 100 prices other than None that were
\* passed, in arrival order; a call with None therefore changes nothing.
C23_HistoryIsLastHundred ==
    /\ Len(ph.hist) <= 100
    /\ ph.hist = LastN(ph.passed, 100)

\* C23's case: more than 100 prices were passed, the oldest were evicted,
\* and the latest call was given None.
C23_Witness ==
    /\ Len(ph.passed) > 100
    /\ ph.calls > 0 /\ ~Has(ph.last)
    /\ ph.hist[1] = Len(ph.passed) - 99

\* C24: authenticate() answers from the cache without contacting the broker
\* when the entry it finds is younger than 600 seconds, contacts the broker
\* when the entry is 600 seconds old or absent, and a successful refresh
\* leaves the slot with expiry 600 seconds after the refresh.
C24_TokensCachedForTenMinutes ==
    ac.last.fn = "authenticate" =>
        /\ (ac.last.had /\ ac.last.age < 600) =>
              ~ac.last.contacted /\ ac.last.result = "cached"
        /\ (~ac.last.had \/ ac.last.age >= 600) => ac.last.contacted
        /\ ac.last.result = "fresh" =>
              /\ ac.slot["auth_tokens"].present
              /\ ac.slot["auth_tokens"].stored = ac.last.done
              /\ ac.slot["auth_tokens"].expiry = ac.last.done + 600

\* C24's case: a call found an entry exactly 600 seconds old and refreshed
\* it.
C24_Witness ==
    /\ ac.last.fn = "authenticate"
    /\ ac.last.had /\ ac.last.age = 600
    /\ ac.last.result = "fresh"

\* C25: get_min_distance answers from the cache without a broker request
\* within 3600 seconds of the successful fetch for the symbol, fetches again
\* after that, and a failed fetch returns None and leaves the symbol's entry
\* as it was.
C25_DistanceCachedForAnHour ==
    ac.last.fn = "get_min_distance" =>
        /\ (ac.last.had /\ ac.last.age < 3600) =>
              ~ac.last.contacted /\ ac.last.result = "cached"
        /\ (~ac.last.had \/ ac.last.age >= 3600) => ac.last.contacted
        /\ ac.last.result = "None" => ac.slot[ac.last.key] = ac.last.before
        /\ ac.last.result = "fresh" =>
              ac.slot[ac.last.key] =
                  [present |-> TRUE, stored |-> ac.last.done,
                   expiry |-> ac.last.done + 3600]

\* C25's case: the fetch for a symbol whose entry had expired failed, while
\* the other symbol's entry is still fresh.
C25_Witness ==
    /\ ac.last.fn = "get_min_distance"
    /\ ac.last.key = "min_distance_BTCUSD"
    /\ ac.last.had /\ ac.last.age >= 3600
    /\ ac.last.result = "None"
    /\ CacheHit(ac.slot["min_distance_ETHUSD"], ac.now)

\* C26: the breakeven step moves a stop-loss only of a position whose profit
\* exceeds 1% in its own direction (BUY: current > entry * 1.01, SELL:
\* current < entry * 0.99), and moves it to that position's entry price.
C26_BreakevenOnlyInProfit ==
    \A r \in mt.stops :
        /\ r.direction = "BUY" => r.current * 100 > r.entry * 101
        /\ r.direction = "SELL" => r.current * 100 < r.entry * 99
        /\ r.level = r.entry

\* The levels the ratchet wants for a position: entry * (1 + TP_MOVE_PERCENT)
\* for BUY, entry * (1 - TP_MOVE_PERCENT) for SELL, rounded to cents.
WantedTP(direction, entry) ==
    IF direction = "BUY" THEN Round2(entry * 1005, 1000)
    ELSE Round2(entry * 995, 1000)

\* The ratchet has to move the take-profit of a listed position.
RatchetDue(trade) ==
    /\ Has(trade.tp)
    /\ \E n \in WantedTP(trade.direction, trade.level) :
          IF trade.direction = "BUY" THEN n > Val(trade.tp) ELSE n < Val(trade.tp)

\* C27: the ratchet takes effect: when a pass in which the broker accepts
\* every request is over, each listed position that is still open and whose
\* take-profit the ratchet had to move has the new take-profit at the broker.
C27_RatchetTakesEffect ==
    (mt.pc = "sleep" /\ mt.brokerOk) =>
        \A k \in DOMAIN mt.list :
            (RatchetDue(mt.list[k]) /\ positions[mt.list[k].dealId].open) =>
                /\ Has(positions[mt.list[k].dealId].tp)
                /\ Val(positions[mt.list[k].dealId].tp)
                      \in WantedTP(mt.list[k].direction, mt.list[k].level)

\* C28: fetch_all_markets always ends by returning the market data or None:
\* it never raises, also when the refresh fails or the broker keeps
\* answering 401.
C28_FetchReturnsDataOrNone ==
    fm.pc = "done" => fm.result \in {"data", "None"}

\* b added up n times, for a natural number n.
RECURSIVE AddedUp(_, _)
AddedUp(n, b) == IF n = 0 THEN 0 ELSE b + AddedUp(n - 1, b)

SidesCorrect ==
    \/ ta.action = "BUY" /\ ta.tp > ta.price /\ ta.price > ta.sl
    \/ ta.action = "SELL" /\ ta.tp < ta.price /\ ta.price < ta.sl

\* C30: whatever action value reaches bot1's trade_action, an order is sent
\* only for BUY with tp > price > sl or for SELL with tp < price < sl; for
\* any other action no order is sent.
C30_OrderOnlyWithCorrectSides ==
    (variant = "bot1" /\ OrderSent) => SidesCorrect

\* A take-profit level is at least md from the entry price of a position,
\* above it for a BUY and below it for a SELL.
ProtectsProfit(direction, entry, level, md) ==
    /\ Abs(level - entry) >= md
    /\ direction = "BUY" => level > entry
    /\ direction = "SELL" => level < entry

\* C31: every take-profit level written to an open position after placement
\* is at least the symbol's minimum distance from the position's entry price
\* and on the profitable side for the position's direction.
C31_WrittenTakeProfitRespectsDistance ==
    \A k \in DOMAIN tpReqs :
        LET r == tpReqs[k]
        IN  (r.deal \in Deals /\ positions[r.deal].open
             /\ positions[r.deal].direction \in {"BUY", "SELL"})
                => ProtectsProfit(positions[r.deal].direction,
                                  positions[r.deal].level, r.level, minDistance)

\* C32: in bot4, once the sweep of fix_missing_take_profits has ended after
\* a successful listing, a take-profit request was sent for every listed
\* position that lacked a take-profit, at a level that respects the minimum
\* distance from its entry price.
C32_Bot4SweepRepairsEveryPosition ==
    (variant = "bot4" /\ fx.pc = "done")
        => \A k \in DOMAIN fx.list :
            LimitLevelMissing(fx.list[k])
                => \E j \in DOMAIN tpReqs :
                    /\ tpReqs[j].by = "fix_missing_take_profits"
                    /\ tpReqs[j].deal = fx.list[k].dealId
                    /\ Abs(tpReqs[j].level - fx.list[k].level) >= minDistance

\* The writers that set a take-profit after reading that the position
\* lacked one.
ReadThenWrite ==
    {"fix_missing_take_profits", "set_take_profit_after_open", "verify_tp"}

\* C33: under any interleaving of the post-open verification and the sweep of
\* fix_missing_take_profits, a task that read a position without take-profit
\* writes its take-profit only while the position still has none: it never
\* overwrites the take-profit the other task set after that read.
C33_NoWriteOverOtherTasksTakeProfit ==
    \A k \in DOMAIN tpReqs :
        tpReqs[k].by \in ReadThenWrite => ~tpReqs[k].had

\* C34: a trade_action whose authentication failed or that got no minimum
\* distance has returned without an order, a verification or an update
\* request; an order is sent only with a minimum distance in hand.
C34_NoRequestWithoutTokensAndDistance ==
    /\ ta.outcome \in {"auth_failed", "no_distance"}
        => /\ ta.pc = "done"
           /\ orderPosts = 0
           /\ tpReqs = <<>>
           /\ ~Has(ta.opened)
           /\ ~Has(ta.vdeal)
    /\ OrderSent => ta.md > 0

\* C34's case: bot1's trade_action returned for want of a minimum distance.
C34_Witness ==
    /\ variant = "bot1"
    /\ ta.pc = "done"
    /\ ta.outcome = "no_distance"
    /\ orderPosts = 0

\* C35: a step of the monitor pass, which acts on behalf of the one position
\* it is visiting, leaves the take-profit and the stop-loss of every other
\* deal as they were, also of deals that share the epic.
C35_WriteReachesOnlyItsPosition ==
    [][(mt.pc = "loop" /\ mt.i < Len(mt.list) /\ mt'.i = mt.i + 1)
          => \A d \in Deals \ {mt.list[mt.i + 1].dealId} :
                /\ positions'[d].sl = positions[d].sl
                /\ positions'[d].tp = positions[d].tp]_vars

\* C36: after execute_trade handled a SELL exit signal of a held long and the
\* broker accepted the order, the broker holds no open position of the
\* symbol, like the engine's maps.
C36_ExitLeavesNoBrokerPosition ==
    (bt.res = "SELL" /\ bt.before.held)
        => /\ bt.broker = <<>>
           /\ ~Has(bt.active)
           /\ ~sg.held

\* C37: the symbol is in active_positions exactly when it is in
\* strategy.positions, with the same quantity; a call without a signal, a
\* skipped trade and a failed order leave active_positions,
\* strategy.positions and last_trade_time as they were.
C37_MapsAgree ==
    /\ Has(bt.active) <=> sg.held
    /\ Has(bt.active) =>
          /\ Val(bt.active).num = sg.qty.num
          /\ Val(bt.active).den = sg.qty.den
    /\ bt.res \in {"none", "skipped", "failed"}
          => /\ bt.active = bt.before.active
             /\ bt.last = bt.before.last
             /\ sg.held = bt.before.held
             /\ sg.qty = bt.before.qty

\* C37's case: a BUY was executed, its exit SELL was executed later, and the
\* call after that failed at the broker.
C37_Witness ==
    /\ Len(bt.orders) = 2
    /\ bt.res = "failed"
    /\ ~Has(bt.active) /\ ~sg.held

\* C38: the orders of one symbol that the broker accepted are at least
\* TRADE_INTERVAL apart by execute_trade's clock, and last_trade_time is the
\* time of the latest of them: no other call changes it.
C38_OrdersAreAnIntervalApart ==
    /\ \A i \in DOMAIN bt.orders, j \in DOMAIN bt.orders :
          i < j => bt.orders[j] - bt.orders[i] >= TradeInterval
    /\ bt.last = IF bt.orders = <<>> THEN Absent
                 ELSE Some(bt.orders[Len(bt.orders)])
    /\ bt.res = "skipped" => /\ Has(bt.last)
                             /\ bt.at - Val(bt.last) < TradeInterval

\* C38's case: an exit SELL was skipped as too soon after the BUY, and a
\* later one went through exactly TRADE_INTERVAL after it.
C38_Witness ==
    /\ Len(bt.orders) = 2
    /\ bt.orders[2] - bt.orders[1] = TradeInterval
    /\ bt.res = "SELL"
    /\ bt.ticks >= 2

\* C39: whenever api_cache holds an unexpired "auth_tokens" entry, its cst
\* and its x_security are both tokens, so a cache hit of authenticate() never
\* returns a missing token.
C39_CachedTokensAreUsable ==
    CacheHit(ac.slot["auth_tokens"], ac.now) => Usable(ac.tokens)

====
